---------------------------- MODULE Spec2Model ----------------------------
(***************************************************************************)
(* Distributed ray coordination core of the serverless path tracer:        *)
(* the coordinator (LambdaMaster), the worker runtime (LambdaWorker), the   *)
(* RayState codec and the tile partition, as state machines.               *)
(*                                                                         *)
(* Every handler of an event loop is one atomic action (handlers run to    *)
(* completion; suspension happens only at the poll boundary).  The write   *)
(* queue of a TCP connection is the channel to the other end; the set of   *)
(* datagrams a process has handed to its UDP connection is the channel to  *)
(* the addressee.  A datagram that is never taken out stands for a lost    *)
(* one.                                                                    *)
(***************************************************************************)
EXTENDS Integers, Sequences, FiniteSets, TLC

VARIABLES
    worker,     \* worker[w]: the LambdaWorker object of process w
    master,     \* the LambdaMaster object
    fuel,       \* Trace/Shade results that still may spawn further work
    received,   \* history: received[w] = keys of the rays w got by SendRays
    tile,       \* pure-function harness: getTile
    codec       \* pure-function harness: to_protobuf / from_protobuf

vars == <<worker, master, fuel, received, tile, codec>>

(***************************************************************************)
(* Bounds of the model                                                     *)
(***************************************************************************)
MaxTries == 1       \* peer.tries is counted up to this value, then saturates
MaxTrace == 2       \* frames and rays the intersection kernel may add in one run
MaxFairTrace == 1   \* the same budget in the runs that check delivery under fairness
MaxVisit == 1       \* depth of the toVisit stack Trace may build
MaxOut == 14        \* rays of one size in an out queue of the packing scenarios
MaxMixed == 3       \* rays of mixed sizes in an out queue of the packing scenarios
MaxCoord == 4       \* largest pixel coordinate of the tile scenarios
MaxBelow == 1       \* pixel coordinates below zero in the tile scenarios
MaxTiles == 5       \* largest tile count of the tile scenarios
MaxRequests == 3    \* GetWorker requests the coordinator scenarios keep outstanding
MaxReports == 2     \* diagnosticsReceived is counted up to this value, then saturates
MaxSamples == 3     \* finished samples the network delivers in the film scenarios
MaxDemand == 5      \* rays the reports of the demand scenarios count in all
MaxNeeded == 3      \* rays a peer sends on in the scenarios of needed treelets
MaxUnread == 2      \* reports the coordinator has read and not yet handled, load scenarios

(***************************************************************************)
(* Program constants                                                       *)
(***************************************************************************)
UDP_MTU_BYTES == 1400
MAX_RAYS == 20000
maxDepth == 5
CoordinatorSeed == 121212
NumberOfLambdas == 2
FINISHED_QUEUE_LIMIT == 1000

(***************************************************************************)
(* The scene configuration                                                 *)
(***************************************************************************)
SceneTreelets == {0, 1, 2}
\* the treelets whose nodes a ray can be sent on to from a treelet
TreeletChildren == [t \in SceneTreelets |-> IF t = 0 THEN {1, 2} ELSE {}]
SampleBounds == [pMin |-> [x |-> 0, y |-> 0], pMax |-> [x |-> 1, y |-> 2]]
Sampler == [samplesPerPixel |-> 1]
SeedValues == {7}
AnySeed == CHOOSE seed \in SeedValues : TRUE
RayBytes == {200, 204, 700}
\* the size of a camera ray: the smallest of the sizes
CameraRayBytes == CHOOSE b \in RayBytes : \A c \in RayBytes : b <= c

Workers == 1..NumberOfLambdas
\* the UDP address of the process with number w; the coordinator is number 0
Addr(w) == 10 + w
CoordinatorAddr == Addr(0)

(***************************************************************************)
(* Generic helpers                                                         *)
(***************************************************************************)
None == <<>>
Some(x) == <<x>>
initialized(o) == o # <<>>

Min(a, b) == IF a < b THEN a ELSE b

Range(q) == {q[i] : i \in 1..Len(q)}

RECURSIVE SumSeq(_)
SumSeq(q) == IF q = <<>> THEN 0 ELSE Head(q) + SumSeq(Tail(q))

RECURSIVE SetToSeq(_)
SetToSeq(S) ==
    IF S = {} THEN <<>>
    ELSE LET m == CHOOSE x \in S : \A y \in S : x <= y
         IN  <<m>> \o SetToSeq(S \ {m})

\* std::map lookup that yields the default for an absent key
MapGet(m, k, dflt) == IF k \in DOMAIN m THEN m[k] ELSE dflt
\* std::map assignment m[k] = v (creates the key when absent)
MapPut(m, k, v) == [x \in DOMAIN m \cup {k} |-> IF x = k THEN v ELSE m[x]]

RECURSIVE SeqsUpTo(_, _)
SeqsUpTo(S, n) ==
    IF n = 0 THEN {<<>>}
    ELSE LET shorter == SeqsUpTo(S, n - 1)
         IN  shorter \cup {Append(q, x) : q \in shorter, x \in S}

(***************************************************************************)
(* RayState and its wire form                                              *)
(***************************************************************************)
TreeletNode(t) == [treelet |-> t, node |-> 0, transform |-> None]

RayStateDefault ==
    [sample |-> [id |-> 0, num |-> 0, pixel |-> [x |-> 0, y |-> 0],
                 pFilm |-> [x |-> 0, y |-> 0], weight |-> 0],
     ray |-> 0, toVisit |-> <<>>, hit |-> None, beta |-> 1, Ld |-> 0,
     bounces |-> 0, remainingBounces |-> 3, isShadowRay |-> FALSE,
     bytes |-> CameraRayBytes]

\* the treelet the ray has to be processed in next
currentTreelet(r) ==
    IF r.toVisit # <<>> THEN r.toVisit[Len(r.toVisit)].treelet
    ELSE IF initialized(r.hit) THEN r.hit[1].treelet
    ELSE 0

StartTrace(r) == [r EXCEPT !.hit = None,
                           !.toVisit = Append(r.toVisit, TreeletNode(0))]

VisitNode_to_protobuf(n) ==
    [treelet |-> n.treelet, node |-> n.node,
     transform |-> IF initialized(n.transform) THEN n.transform ELSE None]

VisitNode_from_protobuf(p) ==
    [treelet |-> p.treelet, node |-> p.node,
     transform |-> IF initialized(p.transform) THEN p.transform ELSE None]

to_protobuf(state) ==
    [sample_id |-> state.sample.id,
     sample_num |-> state.sample.num,
     sample_pixel |-> state.sample.pixel,
     ray |-> state.ray,
     to_visit |-> [i \in 1..Len(state.toVisit) |->
                      VisitNode_to_protobuf(state.toVisit[i])],
     hit |-> IF initialized(state.hit)
             THEN Some(VisitNode_to_protobuf(state.hit[1])) ELSE None,
     beta |-> state.beta,
     ld |-> state.Ld,
     bounces |-> state.bounces,
     remaining_bounces |-> state.remainingBounces,
     is_shadow_ray |-> state.isShadowRay,
     bytes |-> state.bytes]

from_protobuf(proto_state) ==
    [RayStateDefault EXCEPT
        !.sample.id = proto_state.sample_id,
        !.sample.num = proto_state.sample_num,
        !.sample.pixel = proto_state.sample_pixel,
        !.ray = proto_state.ray,
        !.toVisit = [i \in 1..Len(proto_state.to_visit) |->
                        VisitNode_from_protobuf(proto_state.to_visit[i])],
        !.hit = IF initialized(proto_state.hit)
                THEN Some(VisitNode_from_protobuf(proto_state.hit[1]))
                ELSE None,
        !.beta = proto_state.beta,
        !.Ld = proto_state.ld,
        !.bounces = proto_state.bounces,
        !.remainingBounces = proto_state.remaining_bounces,
        !.isShadowRay = proto_state.is_shadow_ray,
        !.bytes = proto_state.bytes]

\* the identity of a ray object among the rays alive at one time: a
\* continuation ray has one bounce more than its parent, a shadow ray takes
\* its parent's place with isShadowRay set
RayKey(r) == <<r.sample.id, r.bounces, r.isShadowRay>>

(***************************************************************************)
(* WorkerStats                                                             *)
(***************************************************************************)
RayStatsZero ==
    [sentRays |-> 0, receivedRays |-> 0, waitingRays |-> 0,
     processedRays |-> 0, demandedRays |-> 0, sendingRays |-> 0,
     pendingRays |-> 0]

QueueStatsZero ==
    [ray |-> 0, finished |-> 0, pending |-> 0, out |-> 0, connecting |-> 0,
     connected |-> 0, outstandingUdp |-> 0]

WorkerStatsZero ==
    [finishedPaths |-> 0, aggregateStats |-> RayStatsZero,
     queueStats |-> QueueStatsZero, objectStats |-> <<>>]

\* INCREMENT_FIELD without the per-treelet counter
IncrementFieldAggregateOnly(stats, name, treeletId) ==
    [stats EXCEPT !.aggregateStats[name] = @ + 1]

\* INCREMENT_FIELD: the aggregate counter and the per-treelet counter
IncrementField(stats, name, treeletId) ==
    LET old == MapGet(stats.objectStats, treeletId, RayStatsZero)
    IN  [stats EXCEPT
            !.aggregateStats[name] = @ + 1,
            !.objectStats = MapPut(@, treeletId, [old EXCEPT ![name] = @ + 1])]

recordFinishedPath(stats) == [stats EXCEPT !.finishedPaths = @ + 1]

\* RayStats::merge
RayStatsMerge(a, other) == [name \in DOMAIN a |-> a[name] + other[name]]

\* a reset that leaves the counters as they are
WorkerStatsKeepsCounters(stats) == stats

\* WorkerStats::reset
WorkerStatsReset(stats) == WorkerStatsZero

\* WorkerStats::merge
WorkerStatsMerge(stats, other) ==
    [finishedPaths |-> stats.finishedPaths + other.finishedPaths,
     aggregateStats |-> RayStatsMerge(stats.aggregateStats, other.aggregateStats),
     queueStats |-> other.queueStats,
     objectStats |->
        [k \in DOMAIN stats.objectStats \cup DOMAIN other.objectStats |->
            IF k \in DOMAIN other.objectStats
            THEN RayStatsMerge(MapGet(stats.objectStats, k, RayStatsZero),
                               other.objectStats[k])
            ELSE stats.objectStats[k]]]

(***************************************************************************)
(* The intersection kernel: Trace and Shade are external; a result is      *)
(* fixed by an oracle record o = [pushed, hit, cont, shadow].              *)
(***************************************************************************)
\* Trace pops the frame on top of toVisit, pushes the frames o.pushed and
\* records an intersection found in the treelet it ran in
Trace(ray, o) ==
    LET rayTreelet == ray.toVisit[Len(ray.toVisit)].treelet
        rest == SubSeq(ray.toVisit, 1, Len(ray.toVisit) - 1)
    IN  [ray EXCEPT
            !.toVisit = rest \o [i \in 1..Len(o.pushed) |-> TreeletNode(o.pushed[i])],
            !.hit = IF o.hit THEN Some(TreeletNode(rayTreelet)) ELSE @]

\* a Shade whose continuation ray keeps the bounces it has left
ShadeKeepsBounces(rayState, o) ==
    LET newRay == StartTrace([RayStateDefault EXCEPT
                        !.beta = rayState.beta,
                        !.ray = rayState.ray,
                        !.bounces = rayState.bounces + 1,
                        !.remainingBounces = rayState.remainingBounces,
                        !.sample = rayState.sample,
                        !.bytes = rayState.bytes])
        shadowRay == StartTrace([rayState EXCEPT !.Ld = 1, !.isShadowRay = TRUE])
    IN  (IF rayState.remainingBounces # 0 /\ o.cont THEN <<newRay>> ELSE <<>>)
        \o (IF o.shadow THEN <<shadowRay>> ELSE <<>>)

\* the rays Shade returns: at most a continuation ray and a shadow ray
Shade(rayState, o) ==
    LET newRay == StartTrace([RayStateDefault EXCEPT
                        !.beta = rayState.beta,
                        !.ray = rayState.ray,
                        !.bounces = rayState.bounces + 1,
                        !.remainingBounces = rayState.remainingBounces - 1,
                        !.sample = rayState.sample,
                        !.bytes = rayState.bytes])
        shadowRay == StartTrace([rayState EXCEPT !.Ld = 1, !.isShadowRay = TRUE])
    IN  (IF rayState.remainingBounces # 0 /\ o.cont THEN <<newRay>> ELSE <<>>)
        \o (IF o.shadow THEN <<shadowRay>> ELSE <<>>)

\* the results the kernel can give for one ray of the ray queue
Oracles(ray) ==
    IF ray.toVisit # <<>>
    THEN {[pushed |-> p, hit |-> h, cont |-> FALSE, shadow |-> FALSE] :
            p \in SeqsUpTo(TreeletChildren[ray.toVisit[Len(ray.toVisit)].treelet],
                           MaxVisit + 1 - Len(ray.toVisit)),
            h \in BOOLEAN}
    ELSE IF initialized(ray.hit)
    THEN {[pushed |-> <<>>, hit |-> FALSE, cont |-> c, shadow |-> sh] :
            c \in (IF ray.remainingBounces # 0 THEN BOOLEAN ELSE {FALSE}),
            sh \in BOOLEAN}
    ELSE {[pushed |-> <<>>, hit |-> FALSE, cont |-> FALSE, shadow |-> FALSE]}

(***************************************************************************)
(* LambdaWorker: the ray engine                                            *)
(***************************************************************************)
\* a push that does not count the ray as waiting
pushRayQueueUncounted(s, state) == [s EXCEPT !.rayQueue = Append(@, state)]

pushRayQueue(s, state) ==
    [s EXCEPT !.workerStats = IncrementField(@, "waitingRays", currentTreelet(state)),
              !.rayQueue = Append(@, state)]

\* the worker after popRayQueue (the ray popped is Head(s.rayQueue))
popRayQueue(s) ==
    [s EXCEPT !.workerStats = IncrementField(@, "processedRays",
                                             currentTreelet(Head(s.rayQueue))),
              !.rayQueue = Tail(@)]

\* an iteration that keeps tracing a ray that left the scene
ProcessRayKeepsMiss(acc, o) ==
    LET ray == Head(acc.s.rayQueue)
        s1 == popRayQueue(acc.s)
    IN  IF ray.toVisit # <<>>
        THEN LET newRay == Trace(ray, o)
                 hit == initialized(newRay.hit)
                 emptyVisit == newRay.toVisit = <<>>
             IN  IF newRay.isShadowRay /\ (hit \/ emptyVisit)
                 THEN [s |-> [s1 EXCEPT !.finishedQueue = Append(@,
                                [newRay EXCEPT !.Ld = IF hit THEN 0 ELSE @])],
                       processedRays |-> acc.processedRays]
                 ELSE [s |-> s1,
                       processedRays |-> Append(acc.processedRays, newRay)]
        ELSE IF initialized(ray.hit)
        THEN [s |-> IF ray.remainingBounces # 0 THEN s1
                    ELSE [s1 EXCEPT !.workerStats = recordFinishedPath(@)],
              processedRays |-> acc.processedRays \o Shade(ray, o)]
        ELSE [s |-> [s1 EXCEPT !.error = "invalid ray in ray queue"],
              processedRays |-> acc.processedRays]

\* an iteration that finishes an occluded shadow ray with its Ld kept
ProcessRayKeepsLd(acc, o) ==
    LET ray == Head(acc.s.rayQueue)
        s1 == popRayQueue(acc.s)
    IN  IF ray.toVisit # <<>>
        THEN LET newRay == Trace(ray, o)
                 hit == initialized(newRay.hit)
                 emptyVisit == newRay.toVisit = <<>>
             IN  IF newRay.isShadowRay
                 THEN IF hit \/ emptyVisit
                      THEN [s |-> [s1 EXCEPT !.finishedQueue = Append(@, newRay)],
                            processedRays |-> acc.processedRays]
                      ELSE [s |-> s1,
                            processedRays |-> Append(acc.processedRays, newRay)]
                 ELSE IF ~emptyVisit \/ hit
                 THEN [s |-> s1,
                       processedRays |-> Append(acc.processedRays, newRay)]
                 ELSE [s |-> [s1 EXCEPT
                                !.finishedQueue = Append(@, [newRay EXCEPT !.Ld = 0]),
                                !.workerStats = recordFinishedPath(@)],
                       processedRays |-> acc.processedRays]
        ELSE IF initialized(ray.hit)
        THEN [s |-> IF ray.remainingBounces # 0 THEN s1
                    ELSE [s1 EXCEPT !.workerStats = recordFinishedPath(@)],
              processedRays |-> acc.processedRays \o Shade(ray, o)]
        ELSE [s |-> [s1 EXCEPT !.error = "invalid ray in ray queue"],
              processedRays |-> acc.processedRays]

\* one iteration of the first loop of handleRayQueue; acc = [s, processedRays]
ProcessRay(acc, o) ==
    LET ray == Head(acc.s.rayQueue)
        s1 == popRayQueue(acc.s)
    IN  IF ray.toVisit # <<>>
        THEN LET newRay == Trace(ray, o)
                 hit == initialized(newRay.hit)
                 emptyVisit == newRay.toVisit = <<>>
             IN  IF newRay.isShadowRay
                 THEN IF hit \/ emptyVisit
                      THEN [s |-> [s1 EXCEPT !.finishedQueue = Append(@,
                                     [newRay EXCEPT !.Ld = IF hit THEN 0 ELSE @])],
                            processedRays |-> acc.processedRays]
                      ELSE [s |-> s1,
                            processedRays |-> Append(acc.processedRays, newRay)]
                 ELSE IF ~emptyVisit \/ hit
                 THEN [s |-> s1,
                       processedRays |-> Append(acc.processedRays, newRay)]
                 ELSE [s |-> [s1 EXCEPT
                                !.finishedQueue = Append(@, [newRay EXCEPT !.Ld = 0]),
                                !.workerStats = recordFinishedPath(@)],
                       processedRays |-> acc.processedRays]
        ELSE IF initialized(ray.hit)
        THEN [s |-> IF ray.remainingBounces # 0 THEN s1
                    ELSE [s1 EXCEPT !.workerStats = recordFinishedPath(@)],
              processedRays |-> acc.processedRays \o Shade(ray, o)]
        ELSE [s |-> [s1 EXCEPT !.error = "invalid ray in ray queue"],
              processedRays |-> acc.processedRays]

\* the first loop of handleRayQueue over the oracle results os
RECURSIVE ProcessRays(_, _)
ProcessRays(acc, os) ==
    IF os = <<>> \/ acc.s.error # "" THEN acc
    ELSE ProcessRays(ProcessRay(acc, Head(os)), Tail(os))

\* a routing that queues a ray without a known holder but does not note the
\* treelet as needed
RouteRaySkipsNeeded(s, ray) ==
    LET nextTreelet == currentTreelet(ray)
        s1 == [s EXCEPT !.workerStats =
                    IncrementField(@, "demandedRays", nextTreelet)]
    IN  IF nextTreelet \in s1.treeletIds
        THEN pushRayQueue(s1, ray)
        ELSE IF nextTreelet \in DOMAIN s1.treeletToWorker
        THEN [s1 EXCEPT
                !.workerStats = IncrementField(@, "sendingRays", nextTreelet),
                !.outQueue = MapPut(@, nextTreelet,
                                Append(MapGet(@, nextTreelet, <<>>), ray)),
                !.outQueueSize = @ + 1]
        ELSE [s1 EXCEPT
                !.workerStats = IncrementField(@, "pendingRays", nextTreelet),
                !.pendingQueue = MapPut(@, nextTreelet,
                                    Append(MapGet(@, nextTreelet, <<>>), ray)),
                !.pendingQueueSize = @ + 1]

\* a routing that re-queues every processed ray locally
RouteRayAlwaysLocal(s, ray) ==
    pushRayQueue([s EXCEPT !.workerStats =
                    IncrementField(@, "demandedRays", currentTreelet(ray))], ray)

\* the routing of one processed ray
RouteRay(s, ray) ==
    LET nextTreelet == currentTreelet(ray)
        s1 == [s EXCEPT !.workerStats =
                    IncrementField(@, "demandedRays", nextTreelet)]
    IN  IF nextTreelet \in s1.treeletIds
        THEN pushRayQueue(s1, ray)
        ELSE IF nextTreelet \in DOMAIN s1.treeletToWorker
        THEN [s1 EXCEPT
                !.workerStats = IncrementField(@, "sendingRays", nextTreelet),
                !.outQueue = MapPut(@, nextTreelet,
                                Append(MapGet(@, nextTreelet, <<>>), ray)),
                !.outQueueSize = @ + 1]
        ELSE [s1 EXCEPT
                !.workerStats = IncrementField(@, "pendingRays", nextTreelet),
                !.neededTreelets = @ \cup {nextTreelet},
                !.pendingQueue = MapPut(@, nextTreelet,
                                    Append(MapGet(@, nextTreelet, <<>>), ray)),
                !.pendingQueueSize = @ + 1]

RECURSIVE RouteRays(_, _)
RouteRays(s, processedRays) ==
    IF processedRays = <<>> THEN s
    ELSE RouteRays(RouteRay(s, Head(processedRays)), Tail(processedRays))

\* handleRayQueue, given the kernel's results for the rays it drains
handleRayQueue(s, os) ==
    LET acc == ProcessRays([s |-> s, processedRays |-> <<>>], os)
    IN  IF acc.s.error # "" THEN acc.s
        ELSE RouteRays(acc.s, acc.processedRays)

\* the work one result adds: frames pushed and rays made
Cost(o) ==
    Len(o.pushed) + (IF o.cont THEN 1 ELSE 0) + (IF o.shadow THEN 1 ELSE 0)

\* the kernel results for a queue of rays that add at most f frames and rays
RECURSIVE OracleSeqs(_, _)
OracleSeqs(q, f) ==
    IF q = <<>> THEN {<<>>}
    ELSE UNION {{<<o>> \o rest : rest \in OracleSeqs(Tail(q), f - Cost(o))} :
                  o \in {x \in Oracles(Head(q)) : Cost(x) <= f}}

RECURSIVE CostAll(_)
CostAll(os) == IF os = <<>> THEN 0 ELSE Cost(Head(os)) + CostAll(Tail(os))

(***************************************************************************)
(* LambdaWorker: messages, peers, out queue                                *)
(***************************************************************************)
Message(opcode, payload) == [opcode |-> opcode, payload |-> payload]

\* a peer record as ConnectTo (or Hey, for the coordinator) creates it
Worker(id, address) ==
    [id |-> id, address |-> address, state |-> "Connecting", seed |-> 0,
     tries |-> 0, treelets |-> {}]

createConnectionRequest(s, peer) ==
    Message("ConnectionRequest",
            [worker_id |-> s.workerId[1], my_seed |-> s.mySeed,
             your_seed |-> peer.seed])

\* a ConnectionResponse that does not echo the seed of its peer
createConnectionResponseNoEcho(s, peer) ==
    Message("ConnectionResponse",
            [worker_id |-> s.workerId[1], my_seed |-> s.mySeed,
             your_seed |-> 0, treelet_ids |-> SetToSeq(s.treeletIds)])

createConnectionResponse(s, peer) ==
    Message("ConnectionResponse",
            [worker_id |-> s.workerId[1], my_seed |-> s.mySeed,
             your_seed |-> peer.seed, treelet_ids |-> SetToSeq(s.treeletIds)])

enqueue_datagram(s, address, message) ==
    [s EXCEPT !.udpOut = @ \cup {[dst |-> address, msg |-> message]}]

enqueue_write(s, message) == [s EXCEPT !.tcpOut = Append(@, message)]

\* the bytes of a SendRays message: the 5-byte header and, per record, a
\* 4-byte length prefix and the serialized ray
RECURSIVE RecordBytes(_)
RecordBytes(records) ==
    IF records = <<>> THEN 0
    ELSE 4 + Head(records).bytes + RecordBytes(Tail(records))

MessageBytes(message) == 5 + RecordBytes(message.payload.records)

\* the inner loop of handleOutQueue: fills one packet from the queue q;
\* p = [q, packetLen, records, unpackedRay]
RECURSIVE FillPacket(_)
FillPacket(p) ==
    IF ~(p.packetLen < UDP_MTU_BYTES /\ p.q # <<>>) THEN p
    ELSE LET rayStr == to_protobuf(Head(p.q))
             len == rayStr.bytes + 4
         IN  IF len + p.packetLen > UDP_MTU_BYTES
             THEN [p EXCEPT !.q = Tail(@), !.unpackedRay = Some(rayStr)]
             ELSE FillPacket([p EXCEPT !.q = Tail(@),
                                       !.packetLen = @ + len,
                                       !.records = Append(@, rayStr)])

\* a packet loop that forgets the ray that did not fit into a packet
RECURSIVE PackQueueDropsCarried(_, _)
PackQueueDropsCarried(q, unpackedRay) ==
    IF q = <<>> THEN <<>>
    ELSE LET p == FillPacket([q |-> q, packetLen |-> 5,
                              records |-> <<>>, unpackedRay |-> None])
         IN  <<Message("SendRays", [records |-> p.records])>>
             \o PackQueueDropsCarried(p.q, None)

\* the packets handleOutQueue makes of the queue q of one treelet
RECURSIVE PackQueue(_, _)
PackQueue(q, unpackedRay) ==
    IF q = <<>> /\ unpackedRay = None THEN <<>>
    ELSE LET p == FillPacket([q |-> q, packetLen |-> 5,
                              records |-> unpackedRay, unpackedRay |-> None])
         IN  <<Message("SendRays", [records |-> p.records])>>
             \o PackQueue(p.q, p.unpackedRay)

RECURSIVE RecordSentRays(_, _, _)
RecordSentRays(stats, treeletId, n) ==
    IF n = 0 THEN stats
    ELSE RecordSentRays(IncrementField(stats, "sentRays", treeletId), treeletId, n - 1)

\* a send that leaves the rays it sent in the out queue
SendQueueKeepsRays(s, t, peerId) ==
    LET q == s.outQueue[t]
        packets == PackQueue(q, None)
    IN  IF MapGet(s.treeletToWorker, t, <<>>) = <<>>
        THEN [s EXCEPT !.error = "sample of an empty range"]
        ELSE IF peerId \notin DOMAIN s.peers
        THEN [s EXCEPT !.error = "out_of_range"]
        ELSE [s EXCEPT
                !.udpOut = @ \cup {[dst |-> s.peers[peerId].address, msg |-> m] :
                                      m \in Range(packets)}]

\* a send that does not count down outQueueSize
SendQueueKeepsCount(s, t, peerId) ==
    LET q == s.outQueue[t]
        packets == PackQueue(q, None)
        s1 == [s EXCEPT !.treeletToWorker = MapPut(@, t, MapGet(@, t, <<>>))]
    IN  IF MapGet(s.treeletToWorker, t, <<>>) = <<>>
        THEN [s1 EXCEPT !.error = "sample of an empty range"]
        ELSE IF peerId \notin DOMAIN s.peers
        THEN [s1 EXCEPT !.error = "out_of_range"]
        ELSE [s1 EXCEPT
                !.outQueue[t] = <<>>,
                !.workerStats = RecordSentRays(@, t, Len(q)),
                !.udpOut = @ \cup {[dst |-> s.peers[peerId].address, msg |-> m] :
                                      m \in Range(packets)}]

\* the body of handleOutQueue's loop for the treelet t, sending to peerId
SendQueue(s, t, peerId) ==
    LET q == s.outQueue[t]
        packets == PackQueue(q, None)
        s1 == [s EXCEPT !.treeletToWorker = MapPut(@, t, MapGet(@, t, <<>>))]
    IN  IF MapGet(s.treeletToWorker, t, <<>>) = <<>>
        THEN [s1 EXCEPT !.error = "sample of an empty range"]
        ELSE IF peerId \notin DOMAIN s.peers
        THEN [s1 EXCEPT !.error = "out_of_range"]
        ELSE [s1 EXCEPT
                !.outQueue[t] = <<>>,
                !.outQueueSize = @ - Len(q),
                !.workerStats = RecordSentRays(@, t, Len(q)),
                !.udpOut = @ \cup {[dst |-> s.peers[peerId].address, msg |-> m] :
                                      m \in Range(packets)}]

\* handleOutQueue; choice[t] is the candidate random::sample draws for t
RECURSIVE SendQueues(_, _, _)
SendQueues(s, ts, choice) ==
    IF ts = <<>> \/ s.error # "" THEN s
    ELSE LET t == Head(ts)
         IN  SendQueues(IF s.outQueue[t] = <<>> THEN s
                        ELSE SendQueue(s, t, choice[t]),
                        Tail(ts), choice)

handleOutQueue(s, choice) == SendQueues(s, SetToSeq(DOMAIN s.outQueue), choice)

\* what random::sample may draw for each treelet with rays to send
OutChoices(s) ==
    LET busy == {t \in DOMAIN s.outQueue : s.outQueue[t] # <<>>}
    IN  {c \in [busy -> DOMAIN s.peers \cup {0}] :
            \A t \in busy :
                LET cand == MapGet(s.treeletToWorker, t, <<>>)
                IN  cand = <<>> \/ c[t] \in Range(cand)}

handleFinishedQueue(s) == [s EXCEPT !.finishedQueue = <<>>]

\* the WorkerStats message: the counters, the per-treelet counters, the
\* queue depths and the diagnostics, which name at least the handler that
\* took the worker's Hey
WorkerStats_to_protobuf(stats) ==
    [time_per_action |-> {"handleMessages"},
     finished_paths |-> stats.finishedPaths,
     aggregate_stats |-> stats.aggregateStats,
     queue_stats |-> stats.queueStats,
     object_stats |-> stats.objectStats]

WorkerStats_from_protobuf(proto) ==
    [finishedPaths |-> proto.finished_paths,
     aggregateStats |-> proto.aggregate_stats,
     queueStats |-> proto.queue_stats,
     objectStats |-> proto.object_stats]

\* the stats tick of a worker
handleWorkerStats(s) ==
    LET connecting == Cardinality({p \in DOMAIN s.peers :
                                      s.peers[p].state = "Connecting"})
        stats == [s.workerStats EXCEPT !.queueStats =
                    [ray |-> Len(s.rayQueue),
                     finished |-> Len(s.finishedQueue),
                     pending |-> s.pendingQueueSize,
                     out |-> s.outQueueSize,
                     connecting |-> connecting,
                     connected |-> Cardinality(DOMAIN s.peers) - connecting,
                     outstandingUdp |-> Cardinality(s.udpOut)]]
    IN  [enqueue_write(s, Message("WorkerStats", WorkerStats_to_protobuf(stats)))
            EXCEPT !.workerStats = WorkerStatsReset(stats)]

\* one iteration of handlePeers' loop
RECURSIVE UpkeepPeers(_, _)
UpkeepPeers(s, ids) ==
    IF ids = <<>> THEN s
    ELSE LET peer == s.peers[Head(ids)]
         IN  UpkeepPeers(
                IF peer.state = "Connecting"
                THEN [enqueue_datagram(s, peer.address, createConnectionRequest(s, peer))
                        EXCEPT !.peers[Head(ids)].tries = Min(@ + 1, MaxTries)]
                ELSE s,
                Tail(ids))

handlePeers(s) == UpkeepPeers(s, SetToSeq(DOMAIN s.peers))

\* a loop that requests every needed treelet, requested before or not
RECURSIVE RequestTreeletsAgain(_, _)
RequestTreeletsAgain(s, ts) ==
    IF ts = <<>> THEN s
    ELSE RequestTreeletsAgain(
            [enqueue_write(s, Message("GetWorker", [treelet_id |-> Head(ts)]))
                EXCEPT !.requestedTreelets = @ \cup {Head(ts)}],
            Tail(ts))

RECURSIVE RequestTreelets(_, _)
RequestTreelets(s, ts) ==
    IF ts = <<>> THEN s
    ELSE RequestTreelets(
            IF Head(ts) \in s.requestedTreelets THEN s
            ELSE [enqueue_write(s, Message("GetWorker", [treelet_id |-> Head(ts)]))
                    EXCEPT !.requestedTreelets = @ \cup {Head(ts)}],
            Tail(ts))

handleNeededTreelets(s) ==
    [RequestTreelets(s, SetToSeq(s.neededTreelets)) EXCEPT !.neededTreelets = {}]

(***************************************************************************)
(* LambdaWorker: generateRays, getObjects, processMessage                  *)
(***************************************************************************)
\* the pixels of a Bounds2i in iteration order (x runs fastest)
PixelsOf(b) ==
    LET w == b.pMax.x - b.pMin.x
        h == b.pMax.y - b.pMin.y
    IN  IF w <= 0 \/ h <= 0 THEN <<>>
        ELSE [i \in 1..(w * h) |->
                [x |-> b.pMin.x + ((i - 1) % w), y |-> b.pMin.y + ((i - 1) \div w)]]

InsideExclusive(p, b) ==
    p.x >= b.pMin.x /\ p.x < b.pMax.x /\ p.y >= b.pMin.y /\ p.y < b.pMax.y

\* the ray generateRays makes for one pixel and one sample number
CameraRay(pixel, sample) ==
    LET sampleExtent == [x |-> SampleBounds.pMax.x - SampleBounds.pMin.x,
                         y |-> SampleBounds.pMax.y - SampleBounds.pMin.y]
    IN  StartTrace([RayStateDefault EXCEPT
            !.sample.id = (pixel.x + pixel.y * sampleExtent.x)
                              * Sampler.samplesPerPixel + sample,
            !.sample.num = sample,
            !.sample.pixel = pixel,
            !.sample.pFilm = [x |-> 2 * pixel.x + 1, y |-> 2 * pixel.y + 1],
            !.sample.weight = 1,
            !.remainingBounces = maxDepth])

RECURSIVE GeneratePixels(_, _, _)
GeneratePixels(s, pixels, sample) ==
    IF pixels = <<>> THEN s
    ELSE GeneratePixels(
            IF InsideExclusive(Head(pixels), SampleBounds)
            THEN pushRayQueue(s, CameraRay(Head(pixels), sample))
            ELSE s,
            Tail(pixels), sample)

RECURSIVE GenerateSamples(_, _, _)
GenerateSamples(s, bounds, sample) ==
    IF sample >= Sampler.samplesPerPixel THEN s
    ELSE GenerateSamples(GeneratePixels(s, PixelsOf(bounds), sample),
                         bounds, sample + 1)

generateRays(s, bounds) == GenerateSamples(s, bounds, 0)

\* getObjects and initializeScene
getObjects(s, object_ids) ==
    [s EXCEPT
        !.treeletIds = @ \cup {k.id : k \in {o \in object_ids : o.type = "Treelet"}},
        !.initialized = TRUE]

\* the treelet the SendRays handler counts a received ray for
ReceivedTreelet(proto) ==
    IF Len(proto.to_visit) > 0 THEN proto.to_visit[1].treelet
    ELSE IF initialized(proto.hit) THEN proto.hit[1].treelet
    ELSE 0

RECURSIVE ReceiveRays(_, _)
ReceiveRays(s, records) ==
    IF records = <<>> THEN s
    ELSE ReceiveRays(
            pushRayQueue(
                [s EXCEPT !.workerStats =
                    IncrementField(@, "receivedRays", ReceivedTreelet(Head(records)))],
                from_protobuf(Head(records))),
            Tail(records))

\* a ConnectionResponse that leaves the pending rays where they are
DrainPendingKeeps(s, treeletId) == s

\* the pending rays of one treelet move to its out queue
DrainPending(s, treeletId) ==
    IF treeletId \notin DOMAIN s.pendingQueue
    THEN s
    ELSE LET treeletPending == s.pendingQueue[treeletId]
             n == Len(treeletPending)
         IN  [s EXCEPT
                !.outQueue = MapPut(@, treeletId,
                                MapGet(@, treeletId, <<>>) \o treeletPending),
                !.pendingQueue[treeletId] = <<>>,
                !.outQueueSize = @ + n,
                !.pendingQueueSize = @ - n,
                !.workerStats =
                    LET RECURSIVE rec(_, _)
                        rec(st, k) == IF k = 0 THEN st
                                      ELSE rec(IncrementField(st, "sendingRays", treeletId), k - 1)
                    IN  rec(@, n)]

\* a treelet loop that does not note the peer as a holder of the treelets
RECURSIVE LearnTreeletsNoHolder(_, _, _)
LearnTreeletsNoHolder(s, otherWorkerId, ids) ==
    IF ids = <<>> THEN s
    ELSE LET treeletId == Head(ids)
             s1 == [s EXCEPT
                      !.peers[otherWorkerId].treelets = @ \cup {treeletId},
                      !.requestedTreelets = @ \ {treeletId}]
         IN  LearnTreeletsNoHolder(DrainPending(s1, treeletId), otherWorkerId, Tail(ids))

\* the loop over the treelet ids of a ConnectionResponse that connects
RECURSIVE LearnTreelets(_, _, _)
LearnTreelets(s, otherWorkerId, ids) ==
    IF ids = <<>> THEN s
    ELSE LET treeletId == Head(ids)
             s1 == [s EXCEPT
                      !.peers[otherWorkerId].treelets = @ \cup {treeletId},
                      !.treeletToWorker = MapPut(@, treeletId,
                            Append(MapGet(@, treeletId, <<>>), otherWorkerId)),
                      !.requestedTreelets = @ \ {treeletId}]
         IN  LearnTreelets(DrainPending(s1, treeletId), otherWorkerId, Tail(ids))

\* a ConnectionResponse case that makes a peer entry for a worker it does
\* not know
ConnectionResponseAddsPeer(s, proto) ==
    LET otherWorkerId == proto.worker_id
        s0 == IF otherWorkerId \in DOMAIN s.peers THEN s
              ELSE [s EXCEPT !.peers = MapPut(@, otherWorkerId,
                                              Worker(otherWorkerId, 0))]
        s1 == [s0 EXCEPT !.peers[otherWorkerId].seed = proto.my_seed]
    IN  IF s1.peers[otherWorkerId].state # "Connected"
           /\ proto.your_seed = s1.mySeed
        THEN LearnTreelets(
               [s1 EXCEPT !.peers[otherWorkerId].state = "Connected"],
               otherWorkerId, proto.treelet_ids)
        ELSE s1

\* a ConnectionResponse case that connects the peer whatever seed it echoes
ConnectionResponseAnySeed(s, proto) ==
    LET otherWorkerId == proto.worker_id
    IN  IF otherWorkerId \notin DOMAIN s.peers THEN s
        ELSE LET s1 == [s EXCEPT !.peers[otherWorkerId].seed = proto.my_seed]
             IN  IF s1.peers[otherWorkerId].state # "Connected"
                 THEN LearnTreelets(
                        [s1 EXCEPT !.peers[otherWorkerId].state = "Connected"],
                        otherWorkerId, proto.treelet_ids)
                 ELSE s1

\* a ConnectionResponse case that learns the treelets of every matching
\* response, the peer connected before or not
ConnectionResponseRelearns(s, proto) ==
    LET otherWorkerId == proto.worker_id
    IN  IF otherWorkerId \notin DOMAIN s.peers THEN s
        ELSE LET s1 == [s EXCEPT !.peers[otherWorkerId].seed = proto.my_seed]
             IN  IF proto.your_seed = s1.mySeed
                 THEN LearnTreelets(
                        [s1 EXCEPT !.peers[otherWorkerId].state = "Connected"],
                        otherWorkerId, proto.treelet_ids)
                 ELSE s1

\* the ConnectionResponse case of processMessage
ConnectionResponseHandler(s, proto) ==
    LET otherWorkerId == proto.worker_id
    IN  IF otherWorkerId \notin DOMAIN s.peers THEN s
        ELSE LET s1 == [s EXCEPT !.peers[otherWorkerId].seed = proto.my_seed]
             IN  IF s1.peers[otherWorkerId].state # "Connected"
                    /\ proto.your_seed = s1.mySeed
                 THEN LearnTreelets(
                        [s1 EXCEPT !.peers[otherWorkerId].state = "Connected"],
                        otherWorkerId, proto.treelet_ids)
                 ELSE s1

\* a ConnectTo case that makes a fresh peer entry for a peer it knows
ConnectToReplaces(s, proto) ==
    [s EXCEPT !.peers = MapPut(@, proto.worker_id,
                               Worker(proto.worker_id, proto.address))]

\* the ConnectTo case of processMessage
ConnectToHandler(s, proto) ==
    IF proto.worker_id \in DOMAIN s.peers THEN s
    ELSE [s EXCEPT !.peers = MapPut(@, proto.worker_id,
                                    Worker(proto.worker_id, proto.address))]

\* processMessage: the worker afterwards and the value returned
processMessage(s, message) ==
    LET op == message.opcode
        proto == message.payload
        done(t) == [s |-> t, ok |-> TRUE]
    IN  CASE op = "Hey" ->
               LET s1 == [s EXCEPT
                            !.workerId = Some(proto.worker_id),
                            !.peers = IF 0 \in DOMAIN @ THEN @
                                      ELSE MapPut(@, 0, Worker(0, CoordinatorAddr))]
               IN  done(enqueue_datagram(s1, CoordinatorAddr,
                                         createConnectionRequest(s1, s1.peers[0])))
          [] op = "Ping" -> done(enqueue_write(s, Message("Pong", [none |-> 0])))
          [] op = "GetObjects" -> done(getObjects(s, proto.object_ids))
          [] op = "GenerateRays" -> done(generateRays(s, proto.crop_window))
          [] op = "ConnectTo" -> done(ConnectToHandler(s, proto))
          [] op = "ConnectionRequest" ->
               IF proto.worker_id \notin DOMAIN s.peers
               THEN [s |-> s, ok |-> FALSE]
               ELSE LET peer == s.peers[proto.worker_id]
                    IN  done(enqueue_datagram(s, peer.address,
                                              createConnectionResponse(s, peer)))
          [] op = "ConnectionResponse" -> done(ConnectionResponseHandler(s, proto))
          [] op = "SendRays" -> done(ReceiveRays(s, proto.records))
          [] op = "Bye" -> done([s EXCEPT !.terminated = TRUE])
          [] OTHER -> done([s EXCEPT !.error = "unhandled message opcode"])

\* a loop that keeps no message for the next pass
RECURSIVE ProcessMessagesKeepsNone(_, _)
ProcessMessagesKeepsNone(acc, messages) ==
    IF messages = <<>> \/ acc.s.error # "" THEN acc
    ELSE ProcessMessagesKeepsNone(
            [s |-> processMessage(acc.s, Head(messages)).s,
             unprocessedMessages |-> acc.unprocessedMessages],
            Tail(messages))

\* handleMessages' loop; acc = [s, unprocessedMessages]
RECURSIVE ProcessMessages(_, _)
ProcessMessages(acc, messages) ==
    IF messages = <<>> \/ acc.s.error # "" THEN acc
    ELSE LET r == processMessage(acc.s, Head(messages))
         IN  ProcessMessages(
                [s |-> r.s,
                 unprocessedMessages |->
                    IF r.ok THEN acc.unprocessedMessages
                    ELSE Append(acc.unprocessedMessages, Head(messages))],
                Tail(messages))

handleMessages(s) ==
    LET acc == ProcessMessages(
                  [s |-> [s EXCEPT !.messageParser = <<>>],
                   unprocessedMessages |-> <<>>],
                  s.messageParser)
    IN  IF acc.s.error # "" THEN acc.s
        ELSE [acc.s EXCEPT !.messageParser = acc.unprocessedMessages]

\* the keys of the rays the SendRays messages of a queue carry
RayKeysIn(messages) ==
    UNION {{RayKey(from_protobuf(p)) : p \in Range(m.payload.records)} :
             m \in {x \in Range(messages) : x.opcode = "SendRays"}}

(***************************************************************************)
(* LambdaMaster: tile partition                                            *)
(***************************************************************************)
\* C++ integer division (truncates toward zero)
IntDiv(a, b) == IF a >= 0 THEN a \div b ELSE -((-a) \div b)

Bounds2i(pMin, pMax) == [pMin |-> pMin, pMax |-> pMax]
Point2i(x, y) == [x |-> x, y |-> y]

Thrown == [thrown |-> TRUE, bounds |-> Bounds2i(Point2i(0, 0), Point2i(0, 0))]
Returned(b) == [thrown |-> FALSE, bounds |-> b]

\* the test that guards the split along x
HorizontalSplitFails(xMid, bounds) == xMid = bounds.pMin.y \/ xMid = bounds.pMax.y

RECURSIVE getTile(_, _, _, _)
getTile(tileIndex, tileCount, bounds, splitVertical) ==
    IF tileCount = 1 THEN Returned(bounds)
    ELSE LET yMid == IntDiv(bounds.pMax.y + bounds.pMin.y, 2)
             xMid == IntDiv(bounds.pMax.x + bounds.pMin.x, 2)
             firstSplit ==
                IF splitVertical
                THEN Bounds2i(bounds.pMin, Point2i(bounds.pMax.x, yMid))
                ELSE Bounds2i(bounds.pMin, Point2i(xMid, bounds.pMax.y))
             secondSplit ==
                IF splitVertical
                THEN Bounds2i(Point2i(bounds.pMin.x, yMid), bounds.pMax)
                ELSE Bounds2i(Point2i(xMid, bounds.pMin.y), bounds.pMax)
         IN  IF splitVertical /\ (yMid = bounds.pMin.y \/ yMid = bounds.pMax.y)
             THEN Thrown
             ELSE IF ~splitVertical /\ HorizontalSplitFails(xMid, bounds)
             THEN Thrown
             ELSE IF tileIndex % 2 = 0
             THEN getTile(tileIndex \div 2, tileCount - tileCount \div 2,
                          firstSplit, ~splitVertical)
             ELSE getTile(tileIndex \div 2, tileCount \div 2,
                          secondSplit, ~splitVertical)

(***************************************************************************)
(* LambdaMaster: scene registry and assignment                             *)
(***************************************************************************)
ObjectKey(type, id) == [type |-> type, id |-> id]

\* the objects of the scene dump and their sizes
SceneObjectSizes ==
    [k \in {ObjectKey("Scene", 0), ObjectKey("Camera", 0), ObjectKey("Sampler", 0),
            ObjectKey("Lights", 0), ObjectKey("Material", 1), ObjectKey("Texture", 1)}
           \cup {ObjectKey("Treelet", t) : t \in SceneTreelets}
       |-> IF k.type = "Treelet" THEN 10 + k.id
           ELSE IF k.type \in {"Material", "Texture"} THEN 3 ELSE 1]

requiredDependentObjects(object) ==
    IF object.type = "Treelet" /\ object.id # 0 THEN {ObjectKey("Material", 1)}
    ELSE IF object = ObjectKey("Material", 1) THEN {ObjectKey("Texture", 1)}
    ELSE {}

RECURSIVE getRecursiveDependencies(_)
getRecursiveDependencies(object) ==
    requiredDependentObjects(object)
      \cup UNION {getRecursiveDependencies(id) : id \in requiredDependentObjects(object)}

treeletFlattenDependencies(treeletId) ==
    getRecursiveDependencies(ObjectKey("Treelet", treeletId))

\* a worker record as the listener creates it
MasterWorker(id) ==
    [id |-> id, connection |-> <<>>, udpAddress |-> None, tile |-> None,
     objects |-> {}, freeSpace |-> 200 * 1024 * 1024,
     stats |-> WorkerStatsZero]

\* an assignObject that records the object with the worker only
assignObjectOneIndex(m, id, object) ==
    IF object \in m.workers[id].objects THEN m
    ELSE [m EXCEPT
            !.workers[id].objects = @ \cup {object},
            !.workers[id].freeSpace = @ - m.sceneObjects[object].size]

assignObject(m, id, object) ==
    IF object \in m.workers[id].objects THEN m
    ELSE [m EXCEPT
            !.sceneObjects[object].workers = @ \cup {id},
            !.workers[id].objects = @ \cup {object},
            !.workers[id].freeSpace = @ - m.sceneObjects[object].size]

RECURSIVE assignObjects(_, _, _)
assignObjects(m, id, objects) ==
    IF objects = {} THEN m
    ELSE LET o == CHOOSE x \in objects : TRUE
         IN  assignObjects(assignObject(m, id, o), id, objects \ {o})

assignTreelet(m, id, treeletId) ==
    assignObjects(assignObject(m, id, ObjectKey("Treelet", treeletId)),
                  id, treeletFlattenDependencies(treeletId))

assignBaseSceneObjects(m, id) ==
    assignObject(assignObject(assignObject(assignObject(m, id,
        ObjectKey("Scene", 0)), id, ObjectKey("Camera", 0)), id,
        ObjectKey("Sampler", 0)), id, ObjectKey("Lights", 0))

\* an assignment that gives every worker the root and the first other treelet
assignTreeletsAllToFirst(m, id) ==
    assignTreelet(assignTreelet(m, id, 0), id, 1)

assignTreeletsUniformly(m, id) ==
    LET nNonRootTreelets == Cardinality(SceneTreelets) - 1
    IN  assignTreelet(assignTreelet(m, id, 0), id, 1 + (id % nNonRootTreelets))

RECURSIVE assignTreeletSeq(_, _, _)
assignTreeletSeq(m, id, ts) ==
    IF ts = <<>> THEN m
    ELSE assignTreeletSeq(assignTreelet(m, id, Head(ts)), id, Tail(ts))

doStaticAssign(m, id) ==
    assignTreeletSeq(assignTreelet(m, id, 0), id,
                     MapGet(m.staticAssignments, id - 1, <<>>))

\* the listener callback: a worker's TCP connection is accepted
listener(m) ==
    LET id == m.currentWorkerID
        m1 == assignBaseSceneObjects(
                [m EXCEPT !.workers = MapPut(@, id, MasterWorker(id))], id)
        tileCount == IF m.numberOfLambdas <= 0 THEN 4 ELSE m.numberOfLambdas
        t == getTile(id - 1, tileCount, SampleBounds, TRUE)
        m2 == [m1 EXCEPT !.workers[id].tile = Some(t.bounds)]
    IN  IF t.thrown
        THEN [m1 EXCEPT !.error =
                "Tried to split a rectangle across an axis of length 1"]
        ELSE IF m.config.assignment = "Static"
        THEN [doStaticAssign(m2, id) EXCEPT !.currentWorkerID = @ + 1]
        ELSE IF m.config.assignment = "Uniform"
        THEN [assignTreeletsUniformly(m2, id) EXCEPT !.currentWorkerID = @ + 1]
        ELSE [m2 EXCEPT !.error = "Unrecognized assignment type"]

(***************************************************************************)
(* LambdaMaster: control plane                                             *)
(***************************************************************************)
connection_write(m, id, message) ==
    [m EXCEPT !.workers[id].connection = Append(@, message)]

ConnectTo(m, id) ==
    Message("ConnectTo", [worker_id |-> id, address |-> m.workers[id].udpAddress[1]])

\* a connectWorkers that tells only the requester about the other worker
connectWorkersOneWay(m, a, b) ==
    IF ~initialized(m.workers[a].udpAddress) THEN [m |-> m, ok |-> FALSE]
    ELSE IF ~initialized(m.workers[b].udpAddress) THEN [m |-> m, ok |-> FALSE]
    ELSE [m |-> connection_write(m, a, ConnectTo(m, b)), ok |-> TRUE]

\* connectWorkers: the master afterwards and the value returned
connectWorkers(m, a, b) ==
    IF ~initialized(m.workers[a].udpAddress) THEN [m |-> m, ok |-> FALSE]
    ELSE IF ~initialized(m.workers[b].udpAddress) THEN [m |-> m, ok |-> FALSE]
    ELSE [m |-> connection_write(connection_write(m, a, ConnectTo(m, b)),
                                 b, ConnectTo(m, a)),
          ok |-> TRUE]

\* a processWorkerRequest that drops a request for a treelet nobody holds
processWorkerRequestDrops(m, request, selectedWorkerId) ==
    LET info == m.sceneObjects[ObjectKey("Treelet", request.treelet)]
    IN  IF info.workers = {} THEN [m |-> m, ok |-> TRUE]
        ELSE connectWorkers(m, request.worker, selectedWorkerId)

\* processWorkerRequest; selectedWorkerId is what random::sample draws
processWorkerRequest(m, request, selectedWorkerId) ==
    LET info == m.sceneObjects[ObjectKey("Treelet", request.treelet)]
    IN  IF info.workers = {} THEN [m |-> m, ok |-> FALSE]
        ELSE connectWorkers(m, request.worker, selectedWorkerId)

\* handleWorkerRequests' loop; acc = [m, unprocessedRequests]
RECURSIVE ProcessWorkerRequests(_, _, _)
ProcessWorkerRequests(acc, requests, selected) ==
    IF requests = <<>> THEN acc
    ELSE LET r == processWorkerRequest(acc.m, Head(requests), Head(selected))
         IN  ProcessWorkerRequests(
                [m |-> r.m,
                 unprocessedRequests |->
                    IF r.ok THEN acc.unprocessedRequests
                    ELSE Append(acc.unprocessedRequests, Head(requests))],
                Tail(requests), Tail(selected))

\* a handleWorkerRequests that does not wait for the workers to initialize
handleWorkerRequestsAtOnce(m, selected) ==
    LET acc == ProcessWorkerRequests(
                    [m |-> [m EXCEPT !.pendingWorkerRequests = <<>>],
                     unprocessedRequests |-> <<>>],
                    m.pendingWorkerRequests, selected)
    IN  [acc.m EXCEPT !.pendingWorkerRequests = acc.unprocessedRequests]

handleWorkerRequests(m, selected) ==
    IF 10 * Cardinality(m.initializedWorkers) < 9 * m.numberOfLambdas THEN m
    ELSE LET acc == ProcessWorkerRequests(
                        [m |-> [m EXCEPT !.pendingWorkerRequests = <<>>],
                         unprocessedRequests |-> <<>>],
                        m.pendingWorkerRequests, selected)
         IN  [acc.m EXCEPT !.pendingWorkerRequests = acc.unprocessedRequests]

\* what random::sample may draw for each request of the queue
SelectedWorkers(m) ==
    {sel \in [1..Len(m.pendingWorkerRequests) -> DOMAIN m.workers] :
        \A i \in 1..Len(m.pendingWorkerRequests) :
            LET holders == m.sceneObjects[ObjectKey("Treelet",
                                m.pendingWorkerRequests[i].treelet)].workers
            IN  holders = {} \/ sel[i] \in holders}

\* RateEstimator::update: the smoothed rate after the sample val, with the
\* weight of the newest sample one half
RateEstimator_update(rate, val) == (rate + val) \div 2

\* a DemandTracker after its constructor
DemandTracker == [estimators |-> <<>>, byWorker |-> <<>>, byTreelet |-> <<>>, total |-> 0]

workerTreeletDemand(d, wid, tid) == MapGet(d.estimators, <<wid, tid>>, 0)

\* the body of submit's loop that adds the new rate instead of the change
submitStepAddsRate(d, wid, tid, demandedRays) ==
    LET rate == RateEstimator_update(workerTreeletDemand(d, wid, tid), demandedRays)
    IN  [estimators |-> MapPut(d.estimators, <<wid, tid>>, rate),
         byWorker |-> MapPut(d.byWorker, wid, MapGet(d.byWorker, wid, 0) + rate),
         byTreelet |-> MapPut(d.byTreelet, tid, MapGet(d.byTreelet, tid, 0) + rate),
         total |-> d.total + rate]

\* the body of DemandTracker::submit's loop for one treelet
submitStep(d, wid, tid, demandedRays) ==
    LET oldRate == workerTreeletDemand(d, wid, tid)
        estimators == MapPut(d.estimators, <<wid, tid>>,
                             RateEstimator_update(oldRate, demandedRays))
        rateChange == estimators[<<wid, tid>>] - oldRate
    IN  [estimators |-> estimators,
         byWorker |-> MapPut(d.byWorker, wid, MapGet(d.byWorker, wid, 0) + rateChange),
         byTreelet |-> MapPut(d.byTreelet, tid, MapGet(d.byTreelet, tid, 0) + rateChange),
         total |-> d.total + rateChange]

RECURSIVE submitLoop(_, _, _, _)
submitLoop(d, wid, stats, tids) ==
    IF tids = <<>> THEN d
    ELSE submitLoop(submitStep(d, wid, Head(tids),
                               stats.objectStats[Head(tids)].demandedRays),
                    wid, stats, Tail(tids))

\* DemandTracker::submit
submit(d, wid, stats) == submitLoop(d, wid, stats, SetToSeq(DOMAIN stats.objectStats))

\* filmTile->AddSample for every record of a FinishedRays message
AddSamples(filmTile, records) ==
    filmTile \o [i \in 1..Len(records) |->
                    [pFilm |-> records[i].p_film, L |-> records[i].l,
                     weight |-> records[i].weight]]

\* a processMessage that answers a Hey with the objects before the id
masterProcessMessageObjectsFirst(m, workerId, message) ==
    LET w == m.workers[workerId]
    IN  CASE message.opcode = "Hey" ->
               LET m1 == connection_write(m, workerId,
                            Message("GetObjects", [object_ids |-> w.objects]))
                   m2 == connection_write(m1, workerId,
                            Message("Hey", [worker_id |-> workerId]))
               IN  IF initialized(w.tile)
                   THEN connection_write(m2, workerId,
                            Message("GenerateRays", [crop_window |-> w.tile[1]]))
                   ELSE m2
          [] message.opcode = "GetWorker" ->
               [m EXCEPT !.pendingWorkerRequests =
                    Append(@, [worker |-> workerId,
                               treelet |-> message.payload.treelet_id])]
          [] OTHER -> [m EXCEPT !.error = "unhandled message opcode"]

\* the master's processMessage for a message of worker workerId
masterProcessMessage(m, workerId, message) ==
    LET w == m.workers[workerId]
    IN  CASE message.opcode = "Hey" ->
               LET m1 == connection_write(m, workerId,
                            Message("Hey", [worker_id |-> workerId]))
                   m2 == connection_write(m1, workerId,
                            Message("GetObjects", [object_ids |-> w.objects]))
               IN  IF initialized(w.tile)
                   THEN connection_write(m2, workerId,
                            Message("GenerateRays", [crop_window |-> w.tile[1]]))
                   ELSE m2
          [] message.opcode = "GetWorker" ->
               [m EXCEPT !.pendingWorkerRequests =
                    Append(@, [worker |-> workerId,
                               treelet |-> message.payload.treelet_id])]
          [] message.opcode = "WorkerStats" ->
               LET stats == WorkerStats_from_protobuf(message.payload)
               IN  [m EXCEPT
                      !.diagnosticsReceived =
                          IF message.payload.time_per_action # {}
                          THEN Min(@ + 1, MaxReports) ELSE @,
                      !.demandTracker = submit(@, workerId, stats),
                      !.workerStats = WorkerStatsMerge(@, stats),
                      !.workers[workerId].stats = WorkerStatsMerge(@, stats)]
          [] message.opcode = "FinishedRays" ->
               [m EXCEPT !.filmTile = AddSamples(@, message.payload.records)]
          [] OTHER -> [m EXCEPT !.error = "unhandled message opcode"]

RECURSIVE masterProcessMessages(_, _)
masterProcessMessages(m, messages) ==
    IF messages = <<>> \/ m.error # "" THEN m
    ELSE masterProcessMessages(
            masterProcessMessage(m, Head(messages).id, Head(messages).message),
            Tail(messages))

masterHandleMessages(m) ==
    masterProcessMessages([m EXCEPT !.incomingMessages = <<>>], m.incomingMessages)

\* connects the worker whose address was bound to the initialized workers
RECURSIVE connectToAll(_, _, _)
connectToAll(m, workerId, ids) ==
    IF ids = <<>> \/ m.error # "" THEN m
    ELSE connectToAll(
            IF Head(ids) = workerId THEN m
            ELSE LET r == connectWorkers(m, workerId, Head(ids))
                 IN  IF r.ok THEN r.m
                     ELSE [m EXCEPT !.error = "Could not connect workers"],
            workerId, Tail(ids))

\* a callback that keeps the first address a worker was seen at
udpHandlerFirstAddress(m, addr, message) ==
    IF message.opcode # "ConnectionRequest" THEN m
    ELSE LET req == message.payload
             workerId == req.worker_id
         IN  IF workerId \notin DOMAIN m.workers
             THEN [m EXCEPT !.error = "unexpected worker id"]
             ELSE LET w == m.workers[workerId]
                      m1 == IF ~initialized(w.udpAddress)
                            THEN [m EXCEPT
                                    !.workers[workerId].udpAddress = Some(addr),
                                    !.initializedWorkers = @ \cup {workerId}]
                            ELSE m
                  IN  connection_write(m1, workerId,
                          Message("ConnectionResponse",
                              [worker_id |-> 0, my_seed |-> CoordinatorSeed,
                               your_seed |-> req.my_seed,
                               treelet_ids |-> <<>>]))

\* a callback that connects a worker to the others only when its address is
\* bound for the first time
udpHandlerFirstBindOnly(m, addr, message) ==
    IF message.opcode # "ConnectionRequest" THEN m
    ELSE LET req == message.payload
             workerId == req.worker_id
         IN  IF workerId \notin DOMAIN m.workers
             THEN [m EXCEPT !.error = "unexpected worker id"]
             ELSE LET w == m.workers[workerId]
                      m1 == IF ~initialized(w.udpAddress) \/ w.udpAddress[1] # addr
                            THEN LET b == [m EXCEPT
                                        !.workers[workerId].udpAddress = Some(addr),
                                        !.initializedWorkers = @ \cup {workerId}]
                                 IN  IF m.config.completeTopology
                                        /\ ~initialized(w.udpAddress)
                                     THEN connectToAll(b, workerId,
                                              SetToSeq(b.initializedWorkers))
                                     ELSE b
                            ELSE m
                  IN  IF m1.error # "" THEN m1
                      ELSE connection_write(m1, workerId,
                              Message("ConnectionResponse",
                                  [worker_id |-> 0, my_seed |-> CoordinatorSeed,
                                   your_seed |-> req.my_seed,
                                   treelet_ids |-> <<>>]))

\* the callback of the master's UDP connection for a datagram from addr
udpHandler(m, addr, message) ==
    IF message.opcode # "ConnectionRequest" THEN m
    ELSE LET req == message.payload
             workerId == req.worker_id
         IN  IF workerId \notin DOMAIN m.workers
             THEN [m EXCEPT !.error = "unexpected worker id"]
             ELSE LET w == m.workers[workerId]
                      m1 == IF ~initialized(w.udpAddress) \/ w.udpAddress[1] # addr
                            THEN LET b == [m EXCEPT
                                        !.workers[workerId].udpAddress = Some(addr),
                                        !.initializedWorkers = @ \cup {workerId}]
                                 IN  IF m.config.completeTopology
                                     THEN connectToAll(b, workerId,
                                              SetToSeq(b.initializedWorkers))
                                     ELSE b
                            ELSE m
                  IN  IF m1.error # "" THEN m1
                      ELSE connection_write(m1, workerId,
                              Message("ConnectionResponse",
                                  [worker_id |-> 0, my_seed |-> CoordinatorSeed,
                                   your_seed |-> req.my_seed,
                                   treelet_ids |-> <<>>]))

(***************************************************************************)
(* The system: initial state                                               *)
(***************************************************************************)
\* a LambdaWorker after its constructor, its Hey waiting to be written
LambdaWorker(seed) ==
    [workerId |-> None, mySeed |-> seed, peers |-> <<>>, treeletIds |-> {},
     rayQueue |-> <<>>, outQueue |-> <<>>, pendingQueue |-> <<>>,
     finishedQueue |-> <<>>, neededTreelets |-> {}, requestedTreelets |-> {},
     treeletToWorker |-> <<>>, outQueueSize |-> 0, pendingQueueSize |-> 0,
     messageParser |-> <<>>, workerStats |-> WorkerStatsZero,
     initialized |-> FALSE, terminated |-> FALSE, error |-> "",
     tcpOut |-> <<Message("Hey", [none |-> 0])>>, udpOut |-> {}]

\* a LambdaMaster after its constructor
LambdaMaster ==
    [workers |-> <<>>, currentWorkerID |-> 1,
     sceneObjects |-> [k \in DOMAIN SceneObjectSizes |->
                         [id |-> k.id, size |-> SceneObjectSizes[k], workers |-> {}]],
     incomingMessages |-> <<>>, pendingWorkerRequests |-> <<>>,
     initializedWorkers |-> {}, error |-> "",
     numberOfLambdas |-> NumberOfLambdas,
     config |-> [assignment |-> "Uniform", completeTopology |-> FALSE,
                 collectDiagnostics |-> FALSE],
     staticAssignments |-> <<>>, filmTile |-> <<>>, film |-> <<>>, image |-> <<>>,
     demandTracker |-> DemandTracker,
     workerStats |-> WorkerStatsZero,
     loop |-> "Running", diagnosticsReceived |-> 0, numWorkers |-> 0]

TileIdle == [tileCount |-> 0, bounds |-> SampleBounds, tiles |-> <<>>]
CodecIdle == [state |-> RayStateDefault, decoded |-> None]

Init ==
    /\ worker \in [Workers -> {LambdaWorker(seed) : seed \in SeedValues}]
    /\ master = LambdaMaster
    /\ fuel = MaxTrace
    /\ received = [w \in Workers |-> {}]
    /\ tile = TileIdle
    /\ codec = CodecIdle

(***************************************************************************)
(* The system: actions.  A process takes input from the network when none  *)
(* of its always-ready handlers has work, and a timer ticks when no input  *)
(* is waiting: input is faster than timers, handlers are faster than input.*)
(***************************************************************************)
Running(w) == worker[w].error = "" /\ ~worker[w].terminated

\* a message that processMessage does not leave in the parser
Processable(s, m) ==
    m.opcode # "ConnectionRequest" \/ m.payload.worker_id \in DOMAIN s.peers

\* a handler of worker w that the poller finds ready whenever it polls
LocalReady(w) ==
    /\ Running(w)
    /\ \/ worker[w].rayQueue # <<>>
       \/ worker[w].outQueueSize > 0
       \/ worker[w].neededTreelets # {}
       \/ Len(worker[w].finishedQueue) > FINISHED_QUEUE_LIMIT
       \/ \E m \in Range(worker[w].messageParser) : Processable(worker[w], m)

MasterReady == master.error = "" /\ master.incomingMessages # <<>>

Quiescent == ~MasterReady /\ \A w \in Workers : ~LocalReady(w)

\* the datagrams of worker src on their way to the address a
InFlight(src, a) == {d \in worker[src].udpOut : d.dst = a}

InputWaiting ==
    \/ \E w \in Workers : worker[w].udpOut # {}
    \/ \E w \in DOMAIN master.workers :
          \/ master.error = "" /\ worker[w].tcpOut # <<>>
          \/ Running(w) /\ master.workers[w].connection # <<>>

TimerMayTick == Quiescent /\ ~InputWaiting

\* the coordinator accepts the TCP connection of the next worker process
Listener ==
    /\ Quiescent
    /\ master.error = ""
    /\ master.currentWorkerID \in Workers
    /\ master' = listener(master)
    /\ UNCHANGED <<worker, fuel, received, tile, codec>>

\* the coordinator reads the messages of worker w from its TCP connection
MasterTcpRecv(w) ==
    /\ Quiescent
    /\ master.error = ""
    /\ w \in DOMAIN master.workers
    /\ worker[w].tcpOut # <<>>
    /\ master' = [master EXCEPT !.incomingMessages =
                    @ \o [i \in 1..Len(worker[w].tcpOut) |->
                            [id |-> w, message |-> worker[w].tcpOut[i]]]]
    /\ worker' = [worker EXCEPT ![w].tcpOut = <<>>]
    /\ UNCHANGED <<fuel, received, tile, codec>>

MasterHandleMessages ==
    /\ master.error = ""
    /\ master.incomingMessages # <<>>
    /\ master' = masterHandleMessages(master)
    /\ UNCHANGED <<worker, fuel, received, tile, codec>>

\* the coordinator receives a datagram of worker w
MasterUdpRecv(w) ==
    /\ Quiescent
    /\ master.error = ""
    /\ \E d \in InFlight(w, CoordinatorAddr) :
        /\ master' = udpHandler(master, Addr(w), d.msg)
        /\ worker' = [worker EXCEPT ![w].udpOut = @ \ {d}]
    /\ UNCHANGED <<fuel, received, tile, codec>>

MasterHandleWorkerRequests ==
    /\ TimerMayTick
    /\ master.error = ""
    /\ master.pendingWorkerRequests # <<>>
    /\ \E selected \in SelectedWorkers(master) :
          master' = handleWorkerRequests(master, selected)
    /\ UNCHANGED <<worker, fuel, received, tile, codec>>

\* worker w reads k messages of the coordinator from its TCP connection
WorkerTcpRecv(w) ==
    /\ Quiescent
    /\ Running(w)
    /\ w \in DOMAIN master.workers
    /\ \E k \in 1..Len(master.workers[w].connection) :
        /\ worker' = [worker EXCEPT ![w].messageParser =
                        @ \o SubSeq(master.workers[w].connection, 1, k)]
        /\ master' = [master EXCEPT !.workers[w].connection =
                        SubSeq(@, k + 1, Len(@))]
    /\ UNCHANGED <<fuel, received, tile, codec>>

\* worker w receives a datagram of worker src with opcode op
WorkerUdpRecv(w, src, op) ==
    /\ Quiescent
    /\ Running(w)
    /\ src # w
    /\ \E d \in InFlight(src, Addr(w)) :
        /\ d.msg.opcode = op
        /\ worker' = [worker EXCEPT
                        ![src].udpOut = @ \ {d},
                        ![w].messageParser = Append(@, d.msg)]
    /\ UNCHANGED <<master, fuel, received, tile, codec>>

\* the network loses a datagram of worker src
DropDatagram(src) ==
    /\ Quiescent
    /\ \E d \in worker[src].udpOut :
          worker' = [worker EXCEPT ![src].udpOut = @ \ {d}]
    /\ UNCHANGED <<master, fuel, received, tile, codec>>

HandleRayQueue(w) ==
    /\ Running(w)
    /\ worker[w].rayQueue # <<>>
    /\ LET q == SubSeq(worker[w].rayQueue, 1,
                       Min(MAX_RAYS, Len(worker[w].rayQueue)))
       IN  \E os \in OracleSeqs(q, fuel) :
            /\ worker' = [worker EXCEPT ![w] = handleRayQueue(@, os)]
            /\ fuel' = fuel - CostAll(os)
    /\ UNCHANGED <<master, received, tile, codec>>

HandleOutQueue(w) ==
    /\ Running(w)
    /\ worker[w].outQueueSize > 0
    /\ \E choice \in OutChoices(worker[w]) :
          worker' = [worker EXCEPT ![w] = handleOutQueue(@, choice)]
    /\ UNCHANGED <<master, fuel, received, tile, codec>>

HandlePeers(w) ==
    /\ TimerMayTick
    /\ Running(w)
    /\ DOMAIN worker[w].peers # {}
    /\ worker' = [worker EXCEPT ![w] = handlePeers(@)]
    /\ UNCHANGED <<master, fuel, received, tile, codec>>

HandleMessages(w) ==
    /\ Running(w)
    /\ worker[w].messageParser # <<>>
    /\ worker' = [worker EXCEPT ![w] = handleMessages(@)]
    /\ received' = [received EXCEPT ![w] = @ \cup RayKeysIn(worker[w].messageParser)]
    /\ UNCHANGED <<master, fuel, tile, codec>>

HandleNeededTreelets(w) ==
    /\ Running(w)
    /\ worker[w].neededTreelets # {}
    /\ worker' = [worker EXCEPT ![w] = handleNeededTreelets(@)]
    /\ UNCHANGED <<master, fuel, received, tile, codec>>

\* the stats timer of worker w ticks
HandleWorkerStats(w) ==
    /\ TimerMayTick
    /\ Running(w)
    /\ w \in DOMAIN master.workers
    /\ worker' = [worker EXCEPT ![w] = handleWorkerStats(@)]
    /\ UNCHANGED <<master, fuel, received, tile, codec>>

\* the poller action "send finished rays"
HandleFinishedQueue(w) ==
    /\ Running(w)
    /\ Len(worker[w].finishedQueue) > FINISHED_QUEUE_LIMIT
    /\ worker' = [worker EXCEPT ![w] = handleFinishedQueue(@)]
    /\ UNCHANGED <<master, fuel, received, tile, codec>>

DatagramOpcodes == {"ConnectionRequest", "ConnectionResponse", "SendRays"}

\* the steps of a run in which no datagram is lost
NextLossless ==
    \/ Listener
    \/ MasterHandleMessages
    \/ MasterHandleWorkerRequests
    \/ \E w \in Workers : MasterTcpRecv(w)
    \/ \E w \in Workers : MasterUdpRecv(w)
    \/ \E w \in Workers : WorkerTcpRecv(w)
    \/ \E w \in Workers, src \in Workers, op \in DatagramOpcodes :
          WorkerUdpRecv(w, src, op)
    \/ \E w \in Workers : HandleRayQueue(w)
    \/ \E w \in Workers : HandleOutQueue(w)
    \/ \E w \in Workers : HandlePeers(w)
    \/ \E w \in Workers : HandleMessages(w)
    \/ \E w \in Workers : HandleNeededTreelets(w)

Next ==
    \/ NextLossless
    \/ \E src \in Workers : DropDatagram(src)

Spec == Init /\ [][Next]_vars

(***************************************************************************)
(* Scenarios that start from a state the system reaches                    *)
(***************************************************************************)
\* the coordinator after it accepted every worker
MasterAccepted ==
    LET RECURSIVE accept(_, _)
        accept(m, n) == IF n = 0 THEN m ELSE accept(listener(m), n - 1)
    IN  accept(LambdaMaster, NumberOfLambdas)

\* the coordinator after every worker's Hey and ConnectionRequest was served
\* and read
MasterServing ==
    [MasterAccepted EXCEPT
        !.workers = [w \in Workers |->
                        [MasterAccepted.workers[w] EXCEPT !.udpAddress = Some(Addr(w))]],
        !.initializedWorkers = Workers]

\* worker w after Hey and GetObjects, its Hey and ConnectionRequest delivered
Booted(w, seed) ==
    [handleMessages([LambdaWorker(seed) EXCEPT
        !.tcpOut = <<>>,
        !.messageParser =
            <<Message("Hey", [worker_id |-> w]),
              Message("GetObjects",
                      [object_ids |-> MasterAccepted.workers[w].objects])>>])
     EXCEPT !.udpOut = {}]

FirstWorker == CHOOSE w \in Workers : \A v \in Workers : w <= v
LastWorker == CHOOSE w \in Workers : \A v \in Workers : v <= w

(***************************************************************************)
(* Peer table scenarios: one worker, messages of every kind from the       *)
(* network                                                                 *)
(***************************************************************************)
\* a seed of another worker, and a seed that no worker has
OtherSeed == AnySeed + 2
WrongSeed == AnySeed + 1
PeerIds == {2, 3}

PeerMessages ==
    {Message("ConnectTo", [worker_id |-> id, address |-> Addr(id) + moved]) :
        id \in PeerIds, moved \in {0, 10}}
    \cup {Message("ConnectionRequest",
                  [worker_id |-> id, my_seed |-> OtherSeed, your_seed |-> 0]) :
            id \in PeerIds}
    \cup {Message("ConnectionResponse",
                  [worker_id |-> id, my_seed |-> OtherSeed, your_seed |-> ys,
                   treelet_ids |-> ts]) :
            id \in PeerIds \cup {0},
            ys \in SeedValues \cup {WrongSeed},
            ts \in {<<>>, <<0, 1>>}}

InitPeer ==
    /\ worker \in [Workers -> UNION {{Booted(w, seed) : seed \in SeedValues} :
                                         w \in Workers}]
    /\ \A w \in Workers : worker[w].workerId = Some(w)
    /\ master = MasterServing
    /\ fuel = 0
    /\ received = [w \in Workers |-> {}]
    /\ tile = TileIdle
    /\ codec = CodecIdle

\* worker w receives the message m from the network
PeerReceive(w, m) ==
    /\ TimerMayTick
    /\ Running(w)
    /\ m \notin Range(worker[w].messageParser)
    /\ worker' = [worker EXCEPT ![w].messageParser = Append(@, m)]
    /\ UNCHANGED <<master, fuel, received, tile, codec>>

NextPeer ==
    \/ \E m \in PeerMessages : PeerReceive(FirstWorker, m)
    \/ HandleMessages(FirstWorker)
    \/ HandlePeers(FirstWorker)
    \/ DropDatagram(FirstWorker)

SpecPeer == InitPeer /\ [][NextPeer]_vars

(***************************************************************************)
(* Packing scenarios: a worker with a connected peer and rays to send      *)
(***************************************************************************)
\* worker w after ConnectTo for the worker v and v's matching response
Connected(w, v, seed) ==
    LET s == Booted(w, seed)
    IN  handleMessages([s EXCEPT !.messageParser =
            <<Message("ConnectTo", [worker_id |-> v, address |-> Addr(v)]),
              Message("ConnectionResponse",
                      [worker_id |-> v, my_seed |-> seed, your_seed |-> s.mySeed,
                       treelet_ids |-> SetToSeq(Booted(v, seed).treeletIds)])>>])

\* a ray waiting to be sent to a holder of treelet t
OutRay(i, t, b) ==
    [RayStateDefault EXCEPT !.sample.id = i,
                            !.toVisit = <<TreeletNode(t)>>,
                            !.remainingBounces = maxDepth,
                            !.bytes = b]

PackSizes ==
    {[i \in 1..n |-> b] : n \in 1..MaxOut, b \in RayBytes}
    \cup SeqsUpTo(RayBytes, MaxMixed)

\* the treelet of the first worker that the last worker does not hold
RemoteTreelet ==
    CHOOSE t \in Booted(FirstWorker, AnySeed).treeletIds :
        t \notin Booted(LastWorker, AnySeed).treeletIds

InitPack ==
    /\ \E sizes \in PackSizes, seed \in SeedValues :
          worker = [w \in Workers |->
                      IF w = LastWorker
                      THEN [Connected(w, FirstWorker, seed) EXCEPT
                              !.outQueue = MapPut(@, RemoteTreelet,
                                  [i \in 1..Len(sizes) |->
                                      OutRay(i, RemoteTreelet, sizes[i])]),
                              !.outQueueSize = Len(sizes)]
                      ELSE Connected(w, LastWorker, seed)]
    /\ master = MasterServing
    /\ fuel = 0
    /\ received = [w \in Workers |-> {}]
    /\ tile = TileIdle
    /\ codec = CodecIdle

NextPack ==
    \/ \E w \in Workers : HandleOutQueue(w)
    \/ \E w \in Workers, src \in Workers : WorkerUdpRecv(w, src, "SendRays")
    \/ \E w \in Workers : HandleMessages(w)

SpecPack == InitPack /\ [][NextPack]_vars

(***************************************************************************)
(* Tile scenarios: getTile for every index of a partition                  *)
(***************************************************************************)
TileCoords == (0 - MaxBelow)..MaxCoord

TileBoxes ==
    {Bounds2i(Point2i(x0, y0), Point2i(x1, y1)) :
        x0 \in TileCoords, y0 \in TileCoords, x1 \in TileCoords, y1 \in TileCoords}

\* the partition of a 70 x 70 image into 7 tiles
TileExample ==
    [tileCount |-> 7, bounds |-> Bounds2i(Point2i(0, 0), Point2i(70, 70)),
     tiles |-> <<>>]

InitTile ==
    /\ tile \in {[tileCount |-> n, bounds |-> b, tiles |-> <<>>] :
                    n \in 1..MaxTiles,
                    b \in {x \in TileBoxes : x.pMin.x < x.pMax.x /\ x.pMin.y < x.pMax.y}}
                \cup {TileExample}
    /\ worker = [w \in Workers |-> LambdaWorker(AnySeed)]
    /\ master = LambdaMaster
    /\ fuel = 0
    /\ received = [w \in Workers |-> {}]
    /\ codec = CodecIdle

\* the tile of the next index is computed
TileStep ==
    /\ Len(tile.tiles) < tile.tileCount
    /\ tile' = [tile EXCEPT !.tiles =
                  Append(@, getTile(Len(@), tile.tileCount, tile.bounds, TRUE))]
    /\ UNCHANGED <<worker, master, fuel, received, codec>>

SpecTile == InitTile /\ [][TileStep]_vars

(***************************************************************************)
(* Codec scenarios: a ray state is serialized and parsed back              *)
(***************************************************************************)
CodecNodes ==
    {[treelet |-> t, node |-> 0, transform |-> tr] :
        t \in SceneTreelets \ {0}, tr \in {None, Some(1)}}

CodecRays ==
    {[RayStateDefault EXCEPT
        !.sample = [id |-> i, num |-> 0, pixel |-> [x |-> i, y |-> 0],
                    pFilm |-> pf, weight |-> wt],
        !.toVisit = tv, !.hit = h, !.isShadowRay = sh,
        !.Ld = IF sh THEN 1 ELSE 0,
        !.bounces = bn, !.remainingBounces = maxDepth - bn] :
        i \in {0, 1},
        pf \in {[x |-> 0, y |-> 0], [x |-> 1, y |-> 3]},
        wt \in {0, 1},
        tv \in SeqsUpTo(CodecNodes, 1),
        h \in {None} \cup {Some(n) : n \in CodecNodes},
        sh \in BOOLEAN,
        bn \in {0, 1}}
    \cup {CameraRay(PixelsOf(SampleBounds)[i], 0) :
            i \in 1..Len(PixelsOf(SampleBounds))}

InitCodec ==
    /\ codec \in {[state |-> r, decoded |-> None] : r \in CodecRays}
    /\ worker = [w \in Workers |-> LambdaWorker(AnySeed)]
    /\ master = LambdaMaster
    /\ fuel = 0
    /\ received = [w \in Workers |-> {}]
    /\ tile = TileIdle

\* the ray state goes through to_protobuf and from_protobuf
CodecRoundTrip ==
    /\ ~initialized(codec.decoded)
    /\ codec' = [codec EXCEPT !.decoded = Some(from_protobuf(to_protobuf(codec.state)))]
    /\ UNCHANGED <<worker, master, fuel, received, tile>>

SpecCodec == InitCodec /\ [][CodecRoundTrip]_vars

(***************************************************************************)
(* Runs in which no datagram is lost and every process keeps running       *)
(***************************************************************************)
Fairness ==
    /\ WF_vars(Listener)
    /\ WF_vars(MasterHandleMessages)
    /\ SF_vars(MasterHandleWorkerRequests)
    /\ \A w \in Workers :
        /\ WF_vars(MasterTcpRecv(w))
        /\ WF_vars(MasterUdpRecv(w))
        /\ WF_vars(WorkerTcpRecv(w))
        /\ WF_vars(HandleRayQueue(w))
        /\ WF_vars(HandleOutQueue(w))
        /\ SF_vars(HandlePeers(w))
        /\ WF_vars(HandleMessages(w))
        /\ WF_vars(HandleNeededTreelets(w))
        /\ \A src \in Workers, op \in DatagramOpcodes :
              WF_vars(WorkerUdpRecv(w, src, op))

\* the start of the lossless system, with the kernel budget MaxFairTrace
InitFair ==
    /\ worker \in [Workers -> {LambdaWorker(seed) : seed \in SeedValues}]
    /\ master = LambdaMaster
    /\ fuel = MaxFairTrace
    /\ received = [w \in Workers |-> {}]
    /\ tile = TileIdle
    /\ codec = CodecIdle

SpecFair == InitFair /\ [][NextLossless]_vars /\ Fairness

(***************************************************************************)
(* Properties                                                              *)
(***************************************************************************)
\* C1: on a worker a peer record that is Connected stays Connected, with
\* its id, address and treelets, whatever ConnectTo, ConnectionRequest,
\* ConnectionResponse or peer-upkeep tick comes next
PeerStaysConnected ==
    [][\A w \in Workers : \A p \in DOMAIN worker[w].peers :
          worker[w].peers[p].state = "Connected"
          => /\ p \in DOMAIN worker'[w].peers
             /\ worker'[w].peers[p].state = "Connected"
             /\ worker'[w].peers[p].id = worker[w].peers[p].id
             /\ worker'[w].peers[p].address = worker[w].peers[p].address
             /\ worker'[w].peers[p].treelets = worker[w].peers[p].treelets]_vars

\* a Connected peer for which a ConnectTo with another address and a
\* ConnectionResponse with a wrong seed are about to be handled
PeerStaysConnectedWitness ==
    \E p \in DOMAIN worker[FirstWorker].peers :
        /\ p # 0
        /\ worker[FirstWorker].peers[p].state = "Connected"
        /\ \E m \in Range(worker[FirstWorker].messageParser) :
              \/ /\ m.opcode = "ConnectTo"
                 /\ m.payload.worker_id = p
                 /\ m.payload.address # worker[FirstWorker].peers[p].address
              \/ /\ m.opcode = "ConnectionResponse"
                 /\ m.payload.worker_id = p
                 /\ m.payload.your_seed # worker[FirstWorker].mySeed

\* C2: a treelet with rays in outQueue has a holder in treeletToWorker, and
\* handleOutQueue never samples from an empty candidate list
OutQueueHasHolder ==
    \A w \in Workers :
        /\ \A t \in DOMAIN worker[w].outQueue :
              worker[w].outQueue[t] # <<>>
              => MapGet(worker[w].treeletToWorker, t, <<>>) # <<>>
        /\ worker[w].error # "sample of an empty range"

OutQueueHasHolderWitness ==
    \E w \in Workers : \E t \in DOMAIN worker[w].outQueue :
        worker[w].outQueue[t] # <<>>

\* C3: a treelet with rays in pendingQueue has no holder in treeletToWorker
PendingHasNoHolder ==
    \A w \in Workers : \A t \in DOMAIN worker[w].pendingQueue :
        worker[w].pendingQueue[t] # <<>>
        => MapGet(worker[w].treeletToWorker, t, <<>>) = <<>>

\* rays are pending for a treelet the worker has asked the coordinator for
PendingHasNoHolderWitness ==
    \E w \in Workers : \E t \in DOMAIN worker[w].pendingQueue :
        /\ worker[w].pendingQueue[t] # <<>>
        /\ t \in worker[w].requestedTreelets

\* the rays a worker holds in one of its queue maps
QueuedIn(m) == UNION {Range(m[t]) : t \in DOMAIN m}

\* C4: every ray in rayQueue, outQueue or pendingQueue has frames to visit
\* or a hit, no ray is in a finishedQueue twice, and handleRayQueue never
\* fails with 'invalid ray in ray queue'
RaysAreValid ==
    /\ \A w \in Workers :
        /\ \A r \in Range(worker[w].rayQueue) \cup QueuedIn(worker[w].outQueue)
                      \cup QueuedIn(worker[w].pendingQueue) :
              r.toVisit # <<>> \/ initialized(r.hit)
        /\ worker[w].error # "invalid ray in ray queue"
    /\ \A w \in Workers, v \in Workers :
          \A i \in 1..Len(worker[w].finishedQueue),
             j \in 1..Len(worker[v].finishedQueue) :
              RayKey(worker[w].finishedQueue[i]) = RayKey(worker[v].finishedQueue[j])
              => w = v /\ i = j

\* a ray that a peer sent is in the receiver's rayQueue, and rays finished
RaysAreValidWitness ==
    \E w \in Workers :
        /\ \E r \in Range(worker[w].rayQueue) : RayKey(r) \in received[w]
        /\ \E v \in Workers : worker[v].finishedQueue # <<>>

\* the places where worker w holds rays, each with the ray's key
Holdings(w) ==
    LET s == worker[w]
        at(place, t, d, j, i, r) ==
            [w |-> w, place |-> place, t |-> t, d |-> d, j |-> j, i |-> i,
             key |-> RayKey(r)]
        sendRays == {d \in s.udpOut : d.msg.opcode = "SendRays"}
        parsed == {j \in 1..Len(s.messageParser) :
                      s.messageParser[j].opcode = "SendRays"}
    IN  {at("rayQueue", 0, {}, 0, i, s.rayQueue[i]) : i \in 1..Len(s.rayQueue)}
        \cup {at("finishedQueue", 0, {}, 0, i, s.finishedQueue[i]) :
                i \in 1..Len(s.finishedQueue)}
        \cup UNION {{at("outQueue", t, {}, 0, i, s.outQueue[t][i]) :
                        i \in 1..Len(s.outQueue[t])} : t \in DOMAIN s.outQueue}
        \cup UNION {{at("pendingQueue", t, {}, 0, i, s.pendingQueue[t][i]) :
                        i \in 1..Len(s.pendingQueue[t])} : t \in DOMAIN s.pendingQueue}
        \cup UNION {{at("datagram", 0, {d}, 0, i,
                        from_protobuf(d.msg.payload.records[i])) :
                        i \in 1..Len(d.msg.payload.records)} : d \in sendRays}
        \cup UNION {{at("messageParser", 0, {}, j, i,
                        from_protobuf(s.messageParser[j].payload.records[i])) :
                        i \in 1..Len(s.messageParser[j].payload.records)} :
                      j \in parsed}

AllHoldings == UNION {Holdings(w) : w \in Workers}

\* C5: between handlers no ray is in two queues, in a queue and in a
\* datagram, or on two workers
RayHeldOnce ==
    \A h \in AllHoldings, g \in AllHoldings : h.key = g.key => h = g

\* a ray is in a datagram in transit, another was received by a peer
RayHeldOnceWitness ==
    /\ \E h \in AllHoldings : h.place = "datagram"
    /\ \E w \in Workers : received[w] # {}

\* C6: every SendRays datagram handed to the transport is at most
\* UDP_MTU_BYTES long
DatagramsFitMTU ==
    \A w \in Workers : \A d \in worker[w].udpOut :
        d.msg.opcode = "SendRays" => MessageBytes(d.msg) <= UDP_MTU_BYTES

\* the pixels of a rectangle
PixelSet(b) ==
    {Point2i(x, y) : x \in b.pMin.x..(b.pMax.x - 1), y \in b.pMin.y..(b.pMax.y - 1)}

\* a step of the recursion for the tile index has to halve an axis on which
\* the current rectangle is 1 pixel long
RECURSIVE HalvesUnitAxis(_, _, _, _)
HalvesUnitAxis(tileIndex, tileCount, bounds, splitVertical) ==
    IF tileCount = 1 THEN FALSE
    ELSE LET lo == IF splitVertical THEN bounds.pMin.y ELSE bounds.pMin.x
             hi == IF splitVertical THEN bounds.pMax.y ELSE bounds.pMax.x
             mid == IntDiv(hi + lo, 2)
             firstSplit ==
                IF splitVertical
                THEN Bounds2i(bounds.pMin, Point2i(bounds.pMax.x, mid))
                ELSE Bounds2i(bounds.pMin, Point2i(mid, bounds.pMax.y))
             secondSplit ==
                IF splitVertical
                THEN Bounds2i(Point2i(bounds.pMin.x, mid), bounds.pMax)
                ELSE Bounds2i(Point2i(mid, bounds.pMin.y), bounds.pMax)
         IN  IF mid = lo \/ mid = hi THEN TRUE
             ELSE IF tileIndex % 2 = 0
             THEN HalvesUnitAxis(tileIndex \div 2, tileCount - tileCount \div 2,
                                 firstSplit, ~splitVertical)
             ELSE HalvesUnitAxis(tileIndex \div 2, tileCount \div 2,
                                 secondSplit, ~splitVertical)

\* C7: when no recursion step has to halve an axis of length 1, the tiles
\* of all indexes are rectangles of width and height >= 1, pairwise
\* disjoint, and their union is the bounds
TilesPartitionBounds ==
    (/\ Len(tile.tiles) = tile.tileCount
     /\ tile.tileCount >= 1
     /\ \A i \in 1..tile.tileCount :
           ~HalvesUnitAxis(i - 1, tile.tileCount, tile.bounds, TRUE))
    => /\ \A i \in 1..tile.tileCount :
           /\ ~tile.tiles[i].thrown
           /\ tile.tiles[i].bounds.pMax.x - tile.tiles[i].bounds.pMin.x >= 1
           /\ tile.tiles[i].bounds.pMax.y - tile.tiles[i].bounds.pMin.y >= 1
       /\ \A i \in 1..tile.tileCount, j \in 1..tile.tileCount :
           i # j => PixelSet(tile.tiles[i].bounds) \cap PixelSet(tile.tiles[j].bounds) = {}
       /\ UNION {PixelSet(tile.tiles[i].bounds) : i \in 1..tile.tileCount}
            = PixelSet(tile.bounds)

\* C8: getTile throws exactly when a recursion step has to halve an axis on
\* which the current rectangle is 1 pixel long
TileThrowsExactly ==
    \A i \in 1..Len(tile.tiles) :
        tile.tiles[i].thrown
        <=> HalvesUnitAxis(i - 1, tile.tileCount, tile.bounds, TRUE)

\* C9: a ray state parsed back from its serialized form equals the ray
\* state in every field
RoundTripIsIdentity ==
    initialized(codec.decoded) => codec.decoded[1] = codec.state

\* the keys rays can have
RayKeys ==
    {<<id, bounces, isShadowRay>> :
        id \in 0..(Len(PixelsOf(SampleBounds)) * Sampler.samplesPerPixel - 1),
        bounces \in 0..MaxTrace,
        isShadowRay \in BOOLEAN}

\* worker w holds the ray with key k for the treelet t that it has no copy of
WaitsFor(w, k, t) ==
    /\ t \notin worker[w].treeletIds
    /\ \E r \in Range(MapGet(worker[w].pendingQueue, t, <<>>))
                  \cup Range(MapGet(worker[w].outQueue, t, <<>>)) : RayKey(r) = k

\* the SendRays messages among ms that carry the ray with key k for treelet t
Carries(ms, k, t) ==
    \E m \in ms :
        /\ m.opcode = "SendRays"
        /\ \E p \in Range(m.payload.records) :
              RayKey(from_protobuf(p)) = k /\ currentTreelet(from_protobuf(p)) = t

\* the ray with key k is on its way to a holder of treelet t: queued at a
\* worker without the treelet, in a datagram, or in a receive buffer
OnTheWay(k, t) ==
    \E w \in Workers :
        \/ WaitsFor(w, k, t)
        \/ Carries({d.msg : d \in worker[w].udpOut}, k, t)
        \/ Carries(Range(worker[w].messageParser), k, t)

\* a worker that holds treelet t got the ray with key k in a SendRays message
Delivered(k, t) ==
    \E v \in Workers : t \in worker[v].treeletIds /\ k \in received[v]

\* C10: when no datagram is lost, a ray that a worker holds for a treelet
\* of another worker is eventually delivered in a SendRays message to a
\* worker that holds the treelet: the ray stays on its way until a holder
\* gets it, and eventually no ray is on its way without having been delivered
RayReachesHolder ==
    /\ [][\A k \in RayKeys, t \in SceneTreelets :
            OnTheWay(k, t) /\ ~OnTheWay(k, t)' => Delivered(k, t)']_vars
    /\ <>[](\A k \in RayKeys, t \in SceneTreelets :
              OnTheWay(k, t) => Delivered(k, t))

\* the last worker, which holds no copy of the first worker's treelet, got
\* a ray for it to the first worker
RayReachesHolderWitness ==
    /\ RemoteTreelet \notin worker[LastWorker].treeletIds
    /\ RemoteTreelet \in worker[FirstWorker].treeletIds
    /\ worker[LastWorker].peers # <<>>
    /\ \E p \in DOMAIN worker[LastWorker].peers :
          p # 0 /\ worker[LastWorker].peers[p].state = "Connected"
    /\ received[FirstWorker] # {}


(***************************************************************************)
(* The single-worker run: the coordinator is started for one worker, which *)
(* gets the whole image as its tile.  The out-queue action and the         *)
(* finished-queue action are never ready in this run (no peer holds a      *)
(* treelet, and fewer than FINISHED_QUEUE_LIMIT rays finish), so the run   *)
(* has no step of them.                                                    *)
(***************************************************************************)
InitSolo ==
    /\ worker \in [Workers -> {LambdaWorker(seed) : seed \in SeedValues}]
    /\ master = [LambdaMaster EXCEPT !.numberOfLambdas = 1]
    /\ fuel = MaxFairTrace
    /\ received = [w \in Workers |-> {}]
    /\ tile = TileIdle
    /\ codec = CodecIdle

SoloListener == master.currentWorkerID = FirstWorker /\ Listener

NextSolo ==
    \/ SoloListener
    \/ MasterHandleMessages
    \/ MasterHandleWorkerRequests
    \/ MasterTcpRecv(FirstWorker)
    \/ MasterUdpRecv(FirstWorker)
    \/ WorkerTcpRecv(FirstWorker)
    \/ HandleRayQueue(FirstWorker)
    \/ HandlePeers(FirstWorker)
    \/ HandleMessages(FirstWorker)
    \/ HandleNeededTreelets(FirstWorker)

FairnessSolo ==
    /\ WF_vars(SoloListener)
    /\ WF_vars(MasterHandleMessages)
    /\ WF_vars(MasterTcpRecv(FirstWorker))
    /\ WF_vars(MasterUdpRecv(FirstWorker))
    /\ WF_vars(WorkerTcpRecv(FirstWorker))
    /\ WF_vars(HandleRayQueue(FirstWorker))
    /\ WF_vars(HandleMessages(FirstWorker))
    /\ WF_vars(HandleNeededTreelets(FirstWorker))
    /\ SF_vars(MasterHandleWorkerRequests)
    /\ SF_vars(HandlePeers(FirstWorker))

SpecSolo == InitSolo /\ [][NextSolo]_vars /\ FairnessSolo

\* C11: in the single-worker run the coordinator sends the worker one Hey,
\* one GetObjects and one GenerateRays, and a sample that the worker has
\* finished eventually arrives in a FinishedRays message at the coordinator,
\* which adds it to its film tile
SoloSampleReachesFilm ==
    (worker[FirstWorker].finishedQueue # <<>>) ~> (master.filmTile # <<>>)


\* worker s when handleMessages comes to the i-th message of its parser
BeforeMessage(s, i) ==
    ProcessMessages([s |-> [s EXCEPT !.messageParser = <<>>],
                     unprocessedMessages |-> <<>>],
                    SubSeq(s.messageParser, 1, i - 1)).s

UnknownWorker == LastWorker + 1

\* the datagrams that reach the coordinator's UDP port from worker w
CoordDatagrams(w) ==
    {Message("ConnectionRequest",
             [worker_id |-> id, my_seed |-> AnySeed, your_seed |-> 0]) :
        id \in {w, UnknownWorker}}
    \cup {Message(op, [none |-> 0]) : op \in {"ConnectionResponse", "SendRays"}}

InitCoord ==
    /\ worker = [w \in Workers |-> LambdaWorker(AnySeed)]
    /\ master \in {[LambdaMaster EXCEPT !.numberOfLambdas = n] :
                      n \in 1..NumberOfLambdas}
    /\ fuel = 0
    /\ received = [w \in Workers |-> {}]
    /\ tile = TileIdle
    /\ codec = CodecIdle

\* the GetWorker requests of worker w the coordinator has not answered
Outstanding(w) ==
    {m.message.payload.treelet_id :
        m \in {x \in Range(master.incomingMessages) :
                  x.id = w /\ x.message.opcode = "GetWorker"}}
    \cup {r.treelet : r \in {x \in Range(master.pendingWorkerRequests) :
                                x.worker = w}}

\* the coordinator reads a GetWorker message of worker w, sent after its Hey
CoordGetWorker(w, t) ==
    /\ Quiescent
    /\ master.error = ""
    /\ w \in DOMAIN master.workers
    /\ worker[w].tcpOut = <<>>
    /\ \A v \in DOMAIN master.workers : master.workers[v].connection = <<>>
    /\ t \notin Outstanding(w)
    /\ Len(master.incomingMessages) + Len(master.pendingWorkerRequests)
          < MaxRequests
    /\ master' = [master EXCEPT !.incomingMessages =
                    Append(@, [id |-> w,
                               message |-> Message("GetWorker",
                                                   [treelet_id |-> t])])]
    /\ UNCHANGED <<worker, fuel, received, tile, codec>>

\* a datagram m with source address addr reaches the coordinator's UDP port
CoordDatagram(addr, m) ==
    /\ Quiescent
    /\ master.error = ""
    /\ \A w \in DOMAIN master.workers : master.workers[w].connection = <<>>
    /\ master' = udpHandler(master, addr, m)
    /\ UNCHANGED <<worker, fuel, received, tile, codec>>

\* worker w reads what the coordinator wrote on its TCP connection
CoordDeliver(w) ==
    /\ w \in DOMAIN master.workers
    /\ master.workers[w].connection # <<>>
    /\ master' = [master EXCEPT !.workers[w].connection = <<>>]
    /\ UNCHANGED <<worker, fuel, received, tile, codec>>

\* the steps without the datagram that makes the coordinator throw
NextCoordServing ==
    \/ Listener
    \/ \E w \in Workers : MasterTcpRecv(w)
    \/ \E w \in Workers, t \in SceneTreelets \ {0} : CoordGetWorker(w, t)
    \/ MasterHandleMessages
    \/ \E w \in Workers, moved \in {0, 10} : \E m \in CoordDatagrams(w) :
          /\ m.opcode = "ConnectionRequest"
          /\ m.payload.worker_id = w
          /\ worker[w].tcpOut = <<>>
          /\ CoordDatagram(Addr(w) + moved, m)
    \/ \E w \in Workers : \E m \in CoordDatagrams(w) :
          /\ m.opcode # "ConnectionRequest"
          /\ CoordDatagram(Addr(w), m)
    \/ \E w \in Workers : CoordDeliver(w)
    \/ MasterHandleWorkerRequests

NextCoord ==
    \/ NextCoordServing
    \/ \E w \in Workers : \E m \in CoordDatagrams(w) :
          /\ m.opcode = "ConnectionRequest"
          /\ m.payload.worker_id = UnknownWorker
          /\ CoordDatagram(Addr(w), m)

SpecCoord == InitCoord /\ [][NextCoord]_vars

\* the coordinator's timer and its handlers run again and again; what the
\* network brings is up to the network
FairnessCoord ==
    /\ SF_vars(MasterHandleWorkerRequests)
    /\ WF_vars(MasterHandleMessages)
    /\ \A w \in Workers : WF_vars(MasterTcpRecv(w))
    /\ \A w \in Workers : WF_vars(CoordDeliver(w))

SpecCoordFair == InitCoord /\ [][NextCoordServing]_vars /\ FairnessCoord

\* the workers recorded as holding treelet t
Holders(t) == master.sceneObjects[ObjectKey("Treelet", t)].workers

\* the test that opens handleWorkerRequests' loop
ThresholdReached ==
    10 * Cardinality(master.initializedWorkers) >= 9 * master.numberOfLambdas

WorkerRequest(w, t) == [worker |-> w, treelet |-> t]

Queued(r) == r \in Range(master.pendingWorkerRequests)

\* a request that the next batch answers whichever holder it draws
Answerable(r) ==
    /\ ThresholdReached
    /\ Holders(r.treelet) # {}
    /\ \A w \in Holders(r.treelet) \cup {r.worker} :
          initialized(master.workers[w].udpAddress)

\* C13: a queued GetWorker request for a treelet that no worker holds stays
\* in pendingWorkerRequests, in its place among such requests, whatever the
\* coordinator does next; and a queued request is answered, leaving the
\* queue, at a later batch once the treelet has holders and the requester
\* and the holders have a bound UDP address
UnheldRequestWaits ==
    /\ [][LET Unheld(r) == Holders(r.treelet) = {}
              waiting == SelectSeq(master.pendingWorkerRequests, Unheld)
              Waited(r) == r \in Range(waiting)
          IN  SelectSeq(master'.pendingWorkerRequests, Waited) = waiting]_vars
    /\ \A w \in Workers, t \in SceneTreelets \ {0} :
          (Queued(WorkerRequest(w, t)) /\ Answerable(WorkerRequest(w, t)))
             ~> ~Queued(WorkerRequest(w, t))

\* a batch has answered one request of a worker and kept its request for a
\* treelet that no worker holds
UnheldRequestWaitsWitness ==
    \E w \in DOMAIN master.workers, t \in SceneTreelets :
        /\ Queued(WorkerRequest(w, t))
        /\ Holders(t) = {}
        /\ ThresholdReached
        /\ \E m \in Range(master.workers[w].connection) : m.opcode = "ConnectTo"

IsPrefix(p, q) == Len(p) <= Len(q) /\ SubSeq(q, 1, Len(p)) = p

\* the ConnectTo messages written to worker w and not yet read by it
ConnectTosFor(m, w) ==
    {x \in Range(m.workers[w].connection) : x.opcode = "ConnectTo"}

\* C14: while fewer than 90% of the numberOfLambdas workers have a bound UDP
\* address the coordinator writes no ConnectTo and the GetWorker requests
\* it receives stay queued in arrival order; requests leave the queue only
\* at a worker-request tick taken with the threshold reached
RequestsWaitForThreshold ==
    [][/\ ~ThresholdReached
          => /\ \A w \in DOMAIN master'.workers : ConnectTosFor(master', w) = {}
             /\ IsPrefix(master.pendingWorkerRequests,
                         master'.pendingWorkerRequests)
       /\ ~IsPrefix(master.pendingWorkerRequests, master'.pendingWorkerRequests)
          => /\ ThresholdReached
             /\ \E selected \in SelectedWorkers(master) :
                   master' = handleWorkerRequests(master, selected)]_vars

\* two requests wait in the queue of a coordinator that expects two workers
\* and has the UDP address of one
RequestsWaitForThresholdWitness ==
    /\ ~ThresholdReached
    /\ master.initializedWorkers # {}
    /\ Len(master.pendingWorkerRequests) >= 2
    /\ \E r \in Range(master.pendingWorkerRequests) : Holders(r.treelet) # {}

\* what a step of the coordinator writes on the connection of worker w
Written(w) ==
    IF w \in DOMAIN master.workers
       /\ IsPrefix(master.workers[w].connection, master'.workers[w].connection)
    THEN SubSeq(master'.workers[w].connection,
                Len(master.workers[w].connection) + 1,
                Len(master'.workers[w].connection))
    ELSE <<>>

\* how many ConnectTo messages naming worker b a step writes to worker a
ConnectTosWritten(a, b) ==
    LET Names(x) == x.opcode = "ConnectTo" /\ x.payload.worker_id = b
    IN  Len(SelectSeq(Written(a), Names))

\* C15: the coordinator writes ConnectTo{b, UDP address of b} to worker a
\* only together with ConnectTo{a, UDP address of a} to worker b, both
\* addresses bound, for a request of one of them that leaves the queue and
\* for whose treelet the other is recorded as a holder; a request leaves the
\* queue only with such a pair written, two messages for each request
ConnectToIsMutual ==
    [][LET ws == DOMAIN master.workers
           left == {r \in Range(master.pendingWorkerRequests) :
                       r \notin Range(master'.pendingWorkerRequests)}
       IN  /\ \A a \in ws : \A x \in Range(Written(a)) :
                x.opcode = "ConnectTo"
                => LET b == x.payload.worker_id
                   IN  /\ b \in ws
                       /\ initialized(master.workers[a].udpAddress)
                       /\ initialized(master.workers[b].udpAddress)
                       /\ x.payload.address = master.workers[b].udpAddress[1]
                       /\ ConnectTo(master, a) \in Range(Written(b))
                       /\ ConnectTosWritten(a, b) = ConnectTosWritten(b, a)
                       /\ \E r \in left :
                             \/ r.worker = a /\ b \in Holders(r.treelet)
                             \/ r.worker = b /\ a \in Holders(r.treelet)
           /\ \A r \in left :
                /\ initialized(master.workers[r.worker].udpAddress)
                /\ \E b \in Holders(r.treelet) :
                      /\ initialized(master.workers[b].udpAddress)
                      /\ ConnectTo(master, b) \in Range(Written(r.worker))
           /\ LET wq == SetToSeq(ws)
               IN  SumSeq([i \in 1..Len(wq) |->
                      SumSeq([j \in 1..Len(wq) |->
                                ConnectTosWritten(wq[i], wq[j])])])
                     = 2 * Cardinality(left)]_vars

\* two workers have each been written a ConnectTo with the other's address
ConnectToIsMutualWitness ==
    \E a \in DOMAIN master.workers, b \in DOMAIN master.workers :
        /\ a # b
        /\ initialized(master.workers[a].udpAddress)
        /\ initialized(master.workers[b].udpAddress)
        /\ ConnectTo(master, b) \in Range(master.workers[a].connection)
        /\ ConnectTo(master, a) \in Range(master.workers[b].connection)

\* C16: a ConnectionRequest datagram with the id of a known worker makes the
\* coordinator bind the worker's udpAddress to the source address of the
\* datagram, count the worker as initialized and write it one
\* ConnectionResponse with worker_id 0 and the request's my_seed as
\* your_seed, and nothing else; a datagram with another opcode changes
\* nothing
DatagramIsAnswered ==
    master.error = ""
    => \A w \in DOMAIN master.workers, moved \in {0, 10} :
          \A d \in CoordDatagrams(w) :
             LET addr == Addr(w) + moved
                 after == udpHandler(master, addr, d)
             IN  IF d.opcode # "ConnectionRequest"
                 THEN after = master
                 ELSE d.payload.worker_id = w
                      => after =
                           [master EXCEPT
                              !.workers[w].udpAddress = Some(addr),
                              !.initializedWorkers = @ \cup {w},
                              !.workers[w].connection =
                                 Append(@, Message("ConnectionResponse",
                                    [worker_id |-> 0,
                                     my_seed |-> CoordinatorSeed,
                                     your_seed |-> d.payload.my_seed,
                                     treelet_ids |-> <<>>]))]

\* a worker is bound to the address its second ConnectionRequest came from
\* and has the coordinator's response to read
DatagramIsAnsweredWitness ==
    \E w \in DOMAIN master.workers :
        /\ master.workers[w].udpAddress = Some(Addr(w) + 10)
        /\ w \in master.initializedWorkers
        /\ \E v \in DOMAIN master.workers :
              v # w /\ master.workers[v].udpAddress = Some(Addr(v))
        /\ \E x \in Range(master.workers[w].connection) :
              /\ x.opcode = "ConnectionResponse"
              /\ x.payload.your_seed = AnySeed

\* the Hey messages of worker w that wait in incomingMessages
HeysFrom(w) ==
    LET IsHey(x) == x.id = w /\ x.message.opcode = "Hey"
    IN  Len(SelectSeq(master.incomingMessages, IsHey))

\* C17: when the coordinator handles its incoming messages it writes to
\* each worker w, for the Hey of w among them, Hey{w}, GetObjects{the
\* objects assigned to w} and GenerateRays{the tile of w}, in this order with
\* nothing in between, and writes nothing to a worker that sent no Hey
HeyIsAnswered ==
    [][(master.error = "" /\ master.incomingMessages # <<>>
          /\ master'.incomingMessages = <<>>)
       => \A w \in DOMAIN master.workers :
             /\ HeysFrom(w) <= 1
             /\ initialized(master.workers[w].tile)
             /\ Written(w) =
                  IF HeysFrom(w) = 0 THEN <<>>
                  ELSE <<Message("Hey", [worker_id |-> w]),
                         Message("GetObjects",
                                 [object_ids |-> master.workers[w].objects]),
                         Message("GenerateRays",
                                 [crop_window |-> master.workers[w].tile[1]])>>]_vars

\* the three messages for the second worker, which holds treelets 0 and 1,
\* are on its connection
HeyIsAnsweredWitness ==
    /\ LastWorker \in DOMAIN master.workers
    /\ Len(master.workers[LastWorker].connection) >= 3
    /\ LET c == master.workers[LastWorker].connection
       IN  /\ c[1].opcode = "Hey"
           /\ c[1].payload.worker_id = LastWorker
           /\ c[2].opcode = "GetObjects"
           /\ {ObjectKey("Treelet", 0), ObjectKey("Treelet", 1)}
                 \subseteq c[2].payload.object_ids
           /\ c[3].opcode = "GenerateRays"
           /\ c[3].payload.crop_window = master.workers[LastWorker].tile[1]

\* C18: a ConnectionResponse whose worker_id is not in the peer table
\* changes nothing of the worker (peers, treeletToWorker, requestedTreelets,
\* the queues and their size counters, the datagrams to send) and is
\* consumed: processMessage returns true, so it is not kept for a later pass
UnknownResponseIsSwallowed ==
    \A w \in Workers : \A i \in 1..Len(worker[w].messageParser) :
        LET m == worker[w].messageParser[i]
            s == BeforeMessage(worker[w], i)
        IN  (/\ s.error = ""
             /\ m.opcode = "ConnectionResponse"
             /\ m.payload.worker_id \notin DOMAIN s.peers)
            => /\ processMessage(s, m) = [s |-> s, ok |-> TRUE]
               /\ m \notin Range(handleMessages(worker[w]).messageParser)

\* a response that echoes the worker's seed and lists treelets waits in the
\* parser of a worker that has no peer entry for its sender
UnknownResponseIsSwallowedWitness ==
    \E m \in Range(worker[FirstWorker].messageParser) :
        /\ m.opcode = "ConnectionResponse"
        /\ m.payload.worker_id \notin DOMAIN worker[FirstWorker].peers
        /\ m.payload.your_seed = worker[FirstWorker].mySeed
        /\ m.payload.treelet_ids # <<>>
        /\ \A x \in Range(worker[FirstWorker].messageParser) :
              x.opcode # "ConnectTo"

\* the peers worker s knows when handleMessages comes to the i-th message:
\* those it knew before and those of the ConnectTo messages before the i-th
KnownAt(s, i) ==
    DOMAIN s.peers
    \cup {s.messageParser[j].payload.worker_id :
            j \in {k \in 1..(i - 1) : s.messageParser[k].opcode = "ConnectTo"}}

\* the address worker s has for peer id at that point: the one of its peer
\* entry, which the first ConnectTo for id made
AddressAt(s, i, id) ==
    IF id \in DOMAIN s.peers THEN s.peers[id].address
    ELSE LET first == CHOOSE j \in 1..(i - 1) :
                         /\ s.messageParser[j].opcode = "ConnectTo"
                         /\ s.messageParser[j].payload.worker_id = id
                         /\ \A k \in 1..(j - 1) :
                               ~(/\ s.messageParser[k].opcode = "ConnectTo"
                                 /\ s.messageParser[k].payload.worker_id = id)
         IN  s.messageParser[first].payload.address

\* C19: handleMessages keeps, in arrival order, exactly the
\* ConnectionRequests of workers that are not in the peer table when their
\* turn comes, and answers every other ConnectionRequest with a
\* ConnectionResponse sent to the address of the first ConnectTo for its
\* sender; so a kept request is answered in the first pass after the pass
\* that handled the ConnectTo
UnknownRequestIsKept ==
    [][\A w \in Workers :
          HandleMessages(w)
          => LET s == worker[w]
                 Request(i) == s.messageParser[i].opcode = "ConnectionRequest"
                 kept == {i \in 1..Len(s.messageParser) :
                             /\ Request(i)
                             /\ s.messageParser[i].payload.worker_id
                                   \notin KnownAt(s, i)}
             IN  /\ worker'[w].messageParser =
                       [n \in 1..Cardinality(kept) |->
                          s.messageParser[SetToSeq(kept)[n]]]
                 /\ \A i \in 1..Len(s.messageParser) :
                       Request(i) /\ i \notin kept
                       => \E d \in worker'[w].udpOut :
                             /\ d.dst = AddressAt(s, i,
                                   s.messageParser[i].payload.worker_id)
                             /\ d.msg.opcode = "ConnectionResponse"
                             /\ d.msg.payload.worker_id = w
                 /\ \A d \in worker'[w].udpOut \ s.udpOut :
                       d.msg.opcode = "ConnectionResponse"
                       => \E i \in 1..Len(s.messageParser) :
                             /\ Request(i) /\ i \notin kept
                             /\ d.dst = AddressAt(s, i,
                                   s.messageParser[i].payload.worker_id)]_vars

\* two ConnectionRequests were kept, in the order they came in, by the pass
\* that handled the ConnectTo for the sender of the first, which the next
\* pass answers
UnknownRequestIsKeptWitness ==
    LET s == worker[FirstWorker]
    IN  /\ Len(s.messageParser) >= 2
        /\ Head(s.messageParser).opcode = "ConnectionRequest"
        /\ Head(s.messageParser).payload.worker_id \in DOMAIN s.peers
        /\ s.peers[Head(s.messageParser).payload.worker_id].address
              # Addr(Head(s.messageParser).payload.worker_id)

(***************************************************************************)
(* The system with the workers' stats timers                               *)
(***************************************************************************)
NextStats ==
    \/ Next
    \/ \E w \in Workers : HandleWorkerStats(w)

SpecStats == InitFair /\ [][NextStats]_vars

\* the sum of a ray counter over the per-treelet entries of a WorkerStats
ObjectSum(stats, name) ==
    LET ks == SetToSeq(DOMAIN stats.objectStats)
    IN  SumSeq([i \in 1..Len(ks) |-> stats.objectStats[ks[i]][name]])

SumsToAggregate(stats) ==
    \A name \in DOMAIN RayStatsZero :
        stats.aggregateStats[name] = ObjectSum(stats, name)

\* the WorkerStats messages of a queue
StatsIn(messages) ==
    {WorkerStats_from_protobuf(m.payload) :
        m \in {x \in Range(messages) : x.opcode = "WorkerStats"}}

\* C20: in the WorkerStats of every worker, in those on their way to the
\* coordinator, and in the coordinator's merged global and per-worker
\* WorkerStats, each aggregate ray counter is the sum of the same counter
\* over the per-treelet entries of objectStats
StatsSumToAggregate ==
    /\ \A w \in Workers :
          /\ SumsToAggregate(worker[w].workerStats)
          /\ \A st \in StatsIn(worker[w].tcpOut) : SumsToAggregate(st)
    /\ SumsToAggregate(master.workerStats)
    /\ \A w \in DOMAIN master.workers : SumsToAggregate(master.workers[w].stats)
    /\ \A x \in Range(master.incomingMessages) :
          x.message.opcode = "WorkerStats"
          => SumsToAggregate(WorkerStats_from_protobuf(x.message.payload))

\* the coordinator has merged the counters of both workers, for more than
\* one treelet, and a worker has counted again since its last report
StatsSumToAggregateWitness ==
    /\ Cardinality(DOMAIN master.workerStats.objectStats) >= 2
    /\ master.workerStats.aggregateStats.processedRays >= 2
    /\ \A w \in Workers :
          /\ w \in DOMAIN master.workers
          /\ master.workers[w].stats.aggregateStats.waitingRays >= 1
    /\ \E w \in Workers : worker[w].workerStats.aggregateStats # RayStatsZero

(***************************************************************************)
(* Shutdown scenarios: the coordinator and its booted workers, the         *)
(* coordinator interrupted at any moment, with and without diagnostics     *)
(***************************************************************************)
RECURSIVE WriteToAll(_, _, _)
WriteToAll(m, ids, message) ==
    IF ids = <<>> THEN m
    ELSE WriteToAll(connection_write(m, Head(ids), message), Tail(ids), message)

\* LambdaMaster::run after its first loop ended or was interrupted
afterLoop(m) ==
    IF m.config.collectDiagnostics
    THEN [WriteToAll(m, SetToSeq(DOMAIN m.workers),
                     Message("RequestDiagnostics", [none |-> 0]))
            EXCEPT !.diagnosticsReceived = 0,
                   !.numWorkers = Cardinality(DOMAIN m.workers),
                   !.loop = "Diagnostics"]
    ELSE [m EXCEPT !.loop = "Done"]

InitShutdown ==
    /\ worker = [w \in Workers |-> Booted(w, AnySeed)]
    /\ master \in {[MasterServing EXCEPT !.config.collectDiagnostics = c] :
                      c \in BOOLEAN}
    /\ fuel = 0
    /\ received = [w \in Workers |-> {}]
    /\ tile = TileIdle
    /\ codec = CodecIdle

\* SIGINT ends the coordinator's loop
MasterInterrupt ==
    /\ master.error = ""
    /\ master.loop = "Running"
    /\ master' = afterLoop(master)
    /\ UNCHANGED <<worker, fuel, received, tile, codec>>

\* the loop that waits for the diagnostics ends and run returns
MasterWaitEnds ==
    /\ master.error = ""
    /\ master.loop = "Diagnostics"
    /\ master.diagnosticsReceived >= master.numWorkers
    /\ master' = [master EXCEPT !.loop = "Done"]
    /\ UNCHANGED <<worker, fuel, received, tile, codec>>

\* the connection of a worker whose process has ended closes: the
\* coordinator's callback throws
WorkerDied(w) ==
    /\ master.error = ""
    /\ master.loop # "Done"
    /\ w \in DOMAIN master.workers
    /\ ~Running(w)
    /\ master' = [master EXCEPT !.error = "worker died"]
    /\ UNCHANGED <<worker, fuel, received, tile, codec>>

\* the connection to a coordinator whose process has ended closes: the
\* worker's callback terminates it
CoordinatorGone(w) ==
    /\ master.loop = "Done" \/ master.error # ""
    /\ Running(w)
    /\ w \in DOMAIN master.workers
    /\ master.workers[w].connection = <<>>
    /\ worker' = [worker EXCEPT ![w].terminated = TRUE]
    /\ UNCHANGED <<master, fuel, received, tile, codec>>

\* the stats timer of worker w fires, whatever the other processes do; the
\* worker has at most one report on its way
StatsTimerFires(w) ==
    /\ Running(w)
    /\ w \in DOMAIN master.workers
    /\ worker[w].tcpOut = <<>>
    /\ worker' = [worker EXCEPT ![w] = handleWorkerStats(@)]
    /\ UNCHANGED <<master, fuel, received, tile, codec>>

NextShutdown ==
    \/ master.loop # "Done" /\ \E w \in Workers : MasterTcpRecv(w)
    \/ master.loop # "Done" /\ MasterHandleMessages
    \/ MasterInterrupt
    \/ MasterWaitEnds
    \/ \E w \in Workers : WorkerDied(w)
    \/ \E w \in Workers : CoordinatorGone(w)
    \/ \E w \in Workers : WorkerTcpRecv(w)
    \/ \E w \in Workers : HandleMessages(w)
    \/ \E w \in Workers : StatsTimerFires(w)

SpecShutdown == InitShutdown /\ [][NextShutdown]_vars

\* a Bye message was written to worker w
ByeWritten(w) ==
    \/ \E m \in Range(master.workers[w].connection) : m.opcode = "Bye"
    \/ \E m \in Range(worker[w].messageParser) : m.opcode = "Bye"
    \/ worker[w].terminated

\* C21: when the coordinator's run has returned after a clean shutdown, a
\* Bye message has been written to every connected worker
ByeBeforeExit ==
    (master.loop = "Done" /\ master.error = "")
    => \A w \in DOMAIN master.workers : ByeWritten(w)

\* C22: a worker that handles RequestDiagnostics goes on running and
\* answers the coordinator with a report
DiagnosticsAreReported ==
    [][\A w \in Workers :
          (/\ HandleMessages(w)
           /\ \E m \in Range(worker[w].messageParser) :
                 m.opcode = "RequestDiagnostics")
          => /\ worker'[w].error = ""
             /\ Len(worker'[w].tcpOut) > Len(worker[w].tcpOut)]_vars

(***************************************************************************)
(* Uniform assignment                                                      *)
(***************************************************************************)
NonRootTreelets == SceneTreelets \ {0}

BaseSceneObjects ==
    {ObjectKey("Scene", 0), ObjectKey("Camera", 0), ObjectKey("Sampler", 0),
     ObjectKey("Lights", 0)}

\* the worker's treelet under the Uniform strategy
UniformTreelet(w) == 1 + (w % Cardinality(NonRootTreelets))

\* what the Uniform strategy gives worker w
UniformObjects(w) ==
    BaseSceneObjects
      \cup {ObjectKey("Treelet", 0), ObjectKey("Treelet", UniformTreelet(w))}
      \cup treeletFlattenDependencies(0)
      \cup treeletFlattenDependencies(UniformTreelet(w))

\* C23: under the Uniform strategy every accepted worker holds exactly the four
\* base objects, treelet 0, treelet 1 + (id mod (|treelets| - 1)) and their
\* dependencies, every object lists exactly the workers that hold it, and once
\* |treelets| - 1 consecutive workers are accepted every non-root treelet has a
\* holder
UniformAssignment ==
    (master.config.assignment = "Uniform" /\ master.error = "") =>
        /\ \A w \in DOMAIN master.workers :
              master.workers[w].objects = UniformObjects(w)
        /\ \A k \in DOMAIN master.sceneObjects :
              master.sceneObjects[k].workers =
                  {w \in DOMAIN master.workers : k \in UniformObjects(w)}
        /\ Cardinality(DOMAIN master.workers) >= Cardinality(NonRootTreelets) =>
              \A t \in NonRootTreelets :
                  master.sceneObjects[ObjectKey("Treelet", t)].workers # {}

\* as many workers as non-root treelets are accepted, with different treelets
UniformAssignmentWitness ==
    /\ master.config.assignment = "Uniform"
    /\ master.error = ""
    /\ Cardinality(DOMAIN master.workers) = Cardinality(NonRootTreelets)
    /\ Cardinality(NonRootTreelets) > 1
    /\ \A t \in NonRootTreelets :
          \E w \in DOMAIN master.workers :
              ObjectKey("Treelet", t) \in master.workers[w].objects


(***************************************************************************)
(* Back-pressure scenarios: two workers that wait for each other's         *)
(* treelet and shake hands                                                 *)
(***************************************************************************)
\* a treelet that worker v holds and worker w does not
TreeletOf(v, w) ==
    CHOOSE t \in Booted(v, AnySeed).treeletIds : t \notin Booted(w, AnySeed).treeletIds

\* worker w with rays of the given sizes routed to a treelet of worker v, its
\* GetWorker request read by the coordinator, the coordinator's ConnectTo
\* handled and the peer timer fired once
Awaiting(w, v, seed, sizes) ==
    LET rays == [i \in 1..Len(sizes) |-> OutRay(i, TreeletOf(v, w), sizes[i])]
        s == handleNeededTreelets(RouteRays(Booted(w, seed), rays))
    IN  handlePeers(handleMessages([s EXCEPT
            !.tcpOut = <<>>,
            !.messageParser =
                <<Message("ConnectTo", [worker_id |-> v, address |-> Addr(v)])>>]))

InitBackedUp ==
    /\ \E sizes \in SeqsUpTo(RayBytes, MaxMixed) \ {<<>>}, seed \in SeedValues :
          worker = [w \in Workers |->
                      IF w = LastWorker
                      THEN Awaiting(w, FirstWorker, seed, sizes)
                      ELSE Awaiting(w, LastWorker, seed, <<CameraRayBytes>>)]
    /\ master = MasterServing
    /\ fuel = 0
    /\ received = [w \in Workers |-> {}]
    /\ tile = TileIdle
    /\ codec = CodecIdle

NextBackedUp ==
    \/ \E w \in Workers, src \in Workers :
          \E op \in {"ConnectionRequest", "ConnectionResponse", "SendRays"} :
              WorkerUdpRecv(w, src, op)
    \/ \E w \in Workers : MasterUdpRecv(w)
    \/ \E w \in Workers : WorkerTcpRecv(w)
    \/ \E w \in Workers : HandleMessages(w)
    \/ \E w \in Workers : HandleOutQueue(w)

SpecBackedUp == InitBackedUp /\ [][NextBackedUp]_vars

\* the transport of worker w still holds datagrams it was handed earlier
TransportBackedUp(w) == worker[w].udpOut # {}

\* C24: while the UDP transport of a worker is backed up, a pass of
\* handleOutQueue hands it no rays: the rays stay in outQueue and outQueueSize,
\* the figure reported as queueStats.out, is not lowered
OutQueueWaitsForTransport ==
    [][\A w \in Workers :
          (HandleOutQueue(w) /\ TransportBackedUp(w))
          => /\ worker'[w].outQueue = worker[w].outQueue
             /\ worker'[w].outQueueSize = worker[w].outQueueSize]_vars

(***************************************************************************)
(* Film scenarios: finished samples from the network and the output timer  *)
(***************************************************************************)
\* Film::MergeFilmTile: the film afterwards
MergeFilmTile(film, filmTile) == film \o filmTile

\* Film::GetFilmTile: a fresh tile
GetFilmTile == <<>>

\* an output tick that goes on with the tile it merged
handleWriteOutputKeepsTile(m) ==
    LET film == MergeFilmTile(m.film, m.filmTile)
    IN  [m EXCEPT !.film = film, !.image = film]

\* handleWriteOutput: merge the tile, write the image, take a fresh tile
handleWriteOutput(m) ==
    LET film == MergeFilmTile(m.film, m.filmTile)
    IN  [m EXCEPT !.film = film, !.image = film, !.filmTile = GetFilmTile]

FinishedRecords ==
    {[p_film |-> [x |-> x, y |-> 1], l |-> l, weight |-> 1] : x \in {1, 3}, l \in {0, 1}}

\* the samples the coordinator holds or is about to handle
SamplesAt(m) ==
    Len(m.film) + Len(m.filmTile)
      + SumSeq([i \in 1..Len(m.incomingMessages) |->
                  IF m.incomingMessages[i].message.opcode = "FinishedRays"
                  THEN Len(m.incomingMessages[i].message.payload.records) ELSE 0])

InitFilm ==
    /\ worker = [w \in Workers |-> Booted(w, AnySeed)]
    /\ master = MasterServing
    /\ fuel = 0
    /\ received = [w \in Workers |-> {}]
    /\ tile = TileIdle
    /\ codec = CodecIdle

\* the coordinator reads a FinishedRays message of worker w
FinishedRaysArrive(w) ==
    /\ master.error = ""
    /\ \E records \in SeqsUpTo(FinishedRecords, MaxSamples - SamplesAt(master)) \ {<<>>} :
          master' = [master EXCEPT !.incomingMessages =
                        Append(@, [id |-> w,
                                   message |-> Message("FinishedRays",
                                                       [records |-> records])])]
    /\ UNCHANGED <<worker, fuel, received, tile, codec>>

\* the output timer fires
HandleWriteOutput ==
    /\ master.error = ""
    /\ master' = handleWriteOutput(master)
    /\ UNCHANGED <<worker, fuel, received, tile, codec>>

NextFilm ==
    \/ \E w \in Workers : FinishedRaysArrive(w)
    \/ MasterHandleMessages
    \/ HandleWriteOutput

SpecFilm == InitFilm /\ [][NextFilm]_vars

\* C25: the samples of the film tile are merged into the film exactly once:
\* an output tick appends the tile to the film, writes the image and leaves an
\* empty tile (a tick with an empty tile leaves the film as it is), and any
\* other step leaves the film alone and only adds samples to the tile
SamplesMergeOnce ==
    [][\/ /\ master'.film = master.film
          /\ IsPrefix(master.filmTile, master'.filmTile)
       \/ /\ HandleWriteOutput
          /\ master'.film = master.film \o master.filmTile
          /\ master'.image = master'.film
          /\ master'.filmTile = <<>>]_vars

\* an output tick has merged samples, and samples have arrived since
SamplesMergeOnceWitness ==
    /\ master.film # <<>>
    /\ master.image = master.film
    /\ master.filmTile # <<>>

(***************************************************************************)
(* Complete topology: the coordinator connects every pair of workers       *)
(***************************************************************************)
InitComplete ==
    /\ worker = [w \in Workers |-> LambdaWorker(AnySeed)]
    /\ master = [LambdaMaster EXCEPT !.config.completeTopology = TRUE]
    /\ fuel = 0
    /\ received = [w \in Workers |-> {}]
    /\ tile = TileIdle
    /\ codec = CodecIdle

\* a ConnectionRequest of worker w reaches the coordinator's UDP port from the
\* worker's address or from the address its traffic has moved to
CompleteDatagram(w, moved) ==
    /\ master.error = ""
    /\ w \in DOMAIN master.workers
    /\ worker[w].tcpOut = <<>>
    /\ master.incomingMessages = <<>>
    /\ \A v \in DOMAIN master.workers :
          Len(master.workers[v].connection) < MaxRequests
    /\ master' = udpHandler(master, Addr(w) + moved,
                            Message("ConnectionRequest",
                                    [worker_id |-> w, my_seed |-> AnySeed,
                                     your_seed |-> 0]))
    /\ UNCHANGED <<worker, fuel, received, tile, codec>>

NextComplete ==
    \/ Listener
    \/ \E w \in Workers : MasterTcpRecv(w)
    \/ MasterHandleMessages
    \/ \E w \in Workers, moved \in {0, 10} : CompleteDatagram(w, moved)
    \/ \E w \in Workers : CoordDeliver(w)

SpecComplete == InitComplete /\ [][NextComplete]_vars

\* the step binds the UDP address of worker a for the first time
FirstBound(a) ==
    /\ a \in DOMAIN master.workers
    /\ ~initialized(master.workers[a].udpAddress)
    /\ initialized(master'.workers[a].udpAddress)

\* the step binds the UDP address of worker a, for the first time or to
\* another address than before
AddressBound(a) ==
    /\ a \in DOMAIN master.workers
    /\ master'.workers[a].udpAddress # master.workers[a].udpAddress

\* the pairs of different workers
WorkerPairs(ws) == {p \in ws \X ws : p[1] # p[2]}

\* C26 as stated: with completeTopology the coordinator writes ConnectTo for
\* worker b to worker a exactly in the steps that bind the address of one of
\* them for the first time while the other is initialized, and the connect
\* step never fails
ConnectsOnFirstBindOnly ==
    [][/\ master'.error # "Could not connect workers"
       /\ \A p \in WorkerPairs(DOMAIN master.workers) :
             ConnectTosWritten(p[1], p[2]) =
                IF \/ FirstBound(p[1]) /\ p[2] \in master'.initializedWorkers
                   \/ FirstBound(p[2]) /\ p[1] \in master'.initializedWorkers
                THEN 1 ELSE 0]_vars

\* C26: with completeTopology the coordinator writes ConnectTo for worker b,
\* with b's bound address, to worker a exactly in the steps that bind the
\* address of one of them, for the first time or to a new address, while the
\* other is initialized: one message each way; so once both are initialized
\* each has been sent the other's address, and the connect step never fails
ConnectsOnEveryBind ==
    [][/\ master'.error # "Could not connect workers"
       /\ \A p \in WorkerPairs(DOMAIN master.workers) :
             /\ ConnectTosWritten(p[1], p[2]) =
                   IF \/ AddressBound(p[1]) /\ p[2] \in master'.initializedWorkers
                      \/ AddressBound(p[2]) /\ p[1] \in master'.initializedWorkers
                   THEN 1 ELSE 0
             /\ ConnectTosWritten(p[1], p[2]) = ConnectTosWritten(p[2], p[1])
             /\ \A x \in Range(Written(p[1])) :
                   (x.opcode = "ConnectTo" /\ x.payload.worker_id = p[2])
                   => x = ConnectTo(master', p[2])]_vars

\* a worker has been written the address of another worker twice, the second
\* time after that worker's address changed
ConnectsOnEveryBindWitness ==
    \E p \in WorkerPairs(DOMAIN master.workers) :
        \E i, j \in 1..Len(master.workers[p[1]].connection) :
            LET x == master.workers[p[1]].connection[i]
                y == master.workers[p[1]].connection[j]
            IN  /\ i < j
                /\ x.opcode = "ConnectTo" /\ y.opcode = "ConnectTo"
                /\ x.payload.worker_id = p[2] /\ y.payload.worker_id = p[2]
                /\ x.payload.address # y.payload.address
                /\ y = ConnectTo(master, p[2])

(***************************************************************************)
(* Retries of the handshake                                                *)
(***************************************************************************)
\* the ConnectionRequest datagrams for the peer p that the transport of the
\* worker state s holds
RequestsTo(s, p) ==
    {d \in s.udpOut : d.dst = s.peers[p].address /\ d.msg.opcode = "ConnectionRequest"}

\* C27: the ConnectionRequests handlePeers sends to one peer are bounded: once
\* the peer's tries counter has reached the bound, a peer-upkeep tick hands
\* the transport no further ConnectionRequest for it
RetriesAreBounded ==
    [][\A w \in Workers :
          HandlePeers(w)
          => \A p \in DOMAIN worker[w].peers :
                worker[w].peers[p].tries >= MaxTries
                => RequestsTo(worker'[w], p) \subseteq RequestsTo(worker[w], p)]_vars

(***************************************************************************)
(* The rays of the ray queue                                               *)
(***************************************************************************)
\* C28: every ray in a worker's rayQueue has as its current treelet (the top
\* of toVisit, or the treelet of the hit when toVisit is empty) a treelet the
\* worker holds
RayQueueIsLocal ==
    \A w \in Workers : \A i \in 1..Len(worker[w].rayQueue) :
        currentTreelet(worker[w].rayQueue[i]) \in worker[w].treeletIds

\* a ray that a peer sent for a treelet other than the root waits in the ray
\* queue of the worker that received it
RayQueueIsLocalWitness ==
    \E w \in Workers : \E i \in 1..Len(worker[w].rayQueue) :
        LET ray == worker[w].rayQueue[i]
        IN  /\ RayKey(ray) \in received[w]
            /\ currentTreelet(ray) # 0
            /\ currentTreelet(ray) \in worker[w].treeletIds

(***************************************************************************)
(* Demand scenarios: WorkerStats reports from the network                  *)
(***************************************************************************)
\* the stats of a worker that counted the given (counter, treelet) events
RECURSIVE StatsOf(_)
StatsOf(events) ==
    IF events = <<>> THEN WorkerStatsZero
    ELSE IncrementField(StatsOf(Tail(events)), Head(events)[1], Head(events)[2])

DemandEvents == {"demandedRays", "waitingRays"} \X SceneTreelets

\* the rays counted by the reports the coordinator has merged or is about to
Reported(m) ==
    LET Counted(agg) == agg.demandedRays + agg.waitingRays
    IN  Counted(m.workerStats.aggregateStats)
          + SumSeq([i \in 1..Len(m.incomingMessages) |->
                      IF m.incomingMessages[i].message.opcode = "WorkerStats"
                      THEN Counted(m.incomingMessages[i].message.payload.aggregate_stats)
                      ELSE 0])

\* the coordinator reads a WorkerStats message of worker w
ReportArrives(w) ==
    /\ master.error = ""
    /\ master.incomingMessages = <<>>
    /\ \E events \in SeqsUpTo(DemandEvents, Min(2, MaxDemand - Reported(master))) \ {<<>>} :
          master' = [master EXCEPT !.incomingMessages =
                        Append(@, [id |-> w,
                                   message |-> Message("WorkerStats",
                                       WorkerStats_to_protobuf(StatsOf(events)))])]
    /\ UNCHANGED <<worker, fuel, received, tile, codec>>

NextDemand ==
    \/ \E w \in Workers : ReportArrives(w)
    \/ MasterHandleMessages

SpecDemand == InitFilm /\ [][NextDemand]_vars

\* the sum of f over the set S of keys
RECURSIVE SumOver(_, _)
SumOver(f, S) ==
    IF S = {} THEN 0
    ELSE LET k == CHOOSE x \in S : TRUE
         IN  f[k] + SumOver(f, S \ {k})

RoutedRays ==
    {OutRay(1, t, CameraRayBytes) : t \in SceneTreelets}
    \cup {[RayStateDefault EXCEPT !.hit = Some(TreeletNode(t))] : t \in SceneTreelets}

\* the queues of a worker state, but for the three that routing may extend
OtherQueues(s) ==
    <<s.finishedQueue, s.messageParser, s.udpOut, s.tcpOut, s.peers,
      s.treeletIds, s.treeletToWorker, s.requestedTreelets>>

\* the map q after the ray was put at the tail of its entry for t
Extended(q, t, ray) == MapPut(q, t, Append(MapGet(q, t, <<>>), ray))

\* C30: routing a processed ray whose next treelet is t has exactly three
\* outcomes: the ray goes to the tail of rayQueue if the worker holds t, else
\* to the tail of outQueue[t] if treeletToWorker names a holder of t, else to
\* the tail of pendingQueue[t] with t added to neededTreelets; one queue gains
\* the ray and no other queue changes
RoutingHasThreeOutcomes ==
    \A w \in Workers : \A ray \in RoutedRays :
        LET s == worker[w]
            t == currentTreelet(ray)
            after == RouteRay(s, ray)
            local == t \in s.treeletIds
            known == MapGet(s.treeletToWorker, t, <<>>) # <<>>
        IN  /\ OtherQueues(after) = OtherQueues(s)
            /\ after.rayQueue = IF local THEN Append(s.rayQueue, ray) ELSE s.rayQueue
            /\ after.outQueue = IF ~local /\ known THEN Extended(s.outQueue, t, ray)
                                ELSE s.outQueue
            /\ after.outQueueSize = s.outQueueSize + (IF ~local /\ known THEN 1 ELSE 0)
            /\ after.pendingQueue = IF ~local /\ ~known
                                    THEN Extended(s.pendingQueue, t, ray)
                                    ELSE s.pendingQueue
            /\ after.pendingQueueSize =
                  s.pendingQueueSize + (IF ~local /\ ~known THEN 1 ELSE 0)
            /\ after.neededTreelets = IF ~local /\ ~known
                                      THEN s.neededTreelets \cup {t}
                                      ELSE s.neededTreelets

\* the three cases at once: a worker has rays queued for a treelet it does
\* not hold and whose holder it knows, a worker has rays waiting for a
\* treelet it does not hold and without a known holder, and both hold the
\* root treelet
RoutingHasThreeOutcomesWitness ==
    /\ \E w \in Workers : \E t \in DOMAIN worker[w].outQueue :
          /\ worker[w].outQueue[t] # <<>>
          /\ t \notin worker[w].treeletIds
          /\ MapGet(worker[w].treeletToWorker, t, <<>>) # <<>>
    /\ \E w \in Workers : \E t \in DOMAIN worker[w].pendingQueue :
          /\ worker[w].pendingQueue[t] # <<>>
          /\ t \notin worker[w].treeletIds
          /\ MapGet(worker[w].treeletToWorker, t, <<>>) = <<>>
    /\ \A w \in Workers : 0 \in worker[w].treeletIds

(***************************************************************************)
(* The classification of a traced ray                                      *)
(***************************************************************************)
\* the outcome of the iteration of handleRayQueue that traces the ray at
\* the head of worker w's ray queue, for the kernel result o
Traced(w, o) ==
    LET s == worker[w]
        r == ProcessRay([s |-> s, processedRays |-> <<>>], o)
    IN  [newRay |-> Trace(Head(s.rayQueue), o),
         finished |-> SubSeq(r.s.finishedQueue, Len(s.finishedQueue) + 1,
                             Len(r.s.finishedQueue)),
         kept |-> SubSeq(r.s.finishedQueue, 1, Len(s.finishedQueue)) = s.finishedQueue,
         routed |-> r.processedRays,
         paths |-> r.s.workerStats.finishedPaths - s.workerStats.finishedPaths]

\* C31: after Trace a shadow ray with a hit or with nothing left to visit
\* is finished, with Ld 0 exactly when it has a hit; a shadow ray without a
\* hit and with frames to visit is routed; a ray that is no shadow ray is
\* routed when it has frames to visit or a hit, and is finished with Ld 0
\* and counted as a finished path otherwise
TraceClassifiesRay ==
    \A w \in Workers :
        (worker[w].rayQueue # <<>> /\ Head(worker[w].rayQueue).toVisit # <<>>)
        => \A o \in Oracles(Head(worker[w].rayQueue)) :
            LET t == Traced(w, o)
                hit == initialized(t.newRay.hit)
                emptyVisit == t.newRay.toVisit = <<>>
                isRouted == /\ t.routed = <<t.newRay>>
                            /\ t.finished = <<>>
                            /\ t.paths = 0
                isFinished(Ld, paths) ==
                            /\ t.routed = <<>>
                            /\ t.finished = <<[t.newRay EXCEPT !.Ld = Ld]>>
                            /\ t.paths = paths
            IN  /\ t.kept
                /\ (t.newRay.isShadowRay /\ (hit \/ emptyVisit))
                   => isFinished(IF hit THEN 0 ELSE t.newRay.Ld, 0)
                /\ (t.newRay.isShadowRay /\ ~hit /\ ~emptyVisit) => isRouted
                /\ (~t.newRay.isShadowRay /\ (~emptyVisit \/ hit)) => isRouted
                /\ (~t.newRay.isShadowRay /\ emptyVisit /\ ~hit)
                   => isFinished(0, 1)

\* an occluded shadow ray was finished with Ld 0, an escaped camera ray was
\* finished and counted, and a shadow ray waits to be traced
TraceClassifiesRayWitness ==
    /\ \E w \in Workers : \E r \in Range(worker[w].finishedQueue) :
          r.isShadowRay /\ initialized(r.hit) /\ r.Ld = 0
    /\ \E w \in Workers :
          /\ worker[w].workerStats.finishedPaths > 0
          /\ \E r \in Range(worker[w].finishedQueue) :
                ~r.isShadowRay /\ ~initialized(r.hit) /\ r.Ld = 0

(***************************************************************************)
(* One run of handleOutQueue                                               *)
(***************************************************************************)
\* the datagrams a step adds to the transport of worker w
NewDatagrams(w) == worker'[w].udpOut \ worker[w].udpOut

\* the positions at which the record x occurs in the sequence q
Positions(q, x) == {i \in 1..Len(q) : q[i] = x}

\* C32: one run of handleOutQueue sends every ray of outQueue[t] in exactly
\* one SendRays datagram, the datagrams of t all go to one peer drawn from
\* the holders of t and cut the queue into consecutive runs in queue order
\* (the ray that did not fit a datagram starts the next one), and afterwards
\* every out queue is empty and outQueueSize is 0
OutQueueSentOnce ==
    [][\A w \in Workers : HandleOutQueue(w) =>
        /\ \A t \in DOMAIN worker[w].outQueue :
            LET q == worker[w].outQueue[t]
                rays == [i \in 1..Len(q) |-> to_protobuf(q[i])]
                sent == {d \in NewDatagrams(w) :
                            /\ d.msg.opcode = "SendRays"
                            /\ Range(d.msg.payload.records) \cap Range(rays) # {}}
            IN  /\ \A i \in 1..Len(q) :
                      /\ Cardinality({d \in sent :
                            Positions(d.msg.payload.records, rays[i]) # {}}) = 1
                      /\ \A d \in sent :
                            Cardinality(Positions(d.msg.payload.records, rays[i])) <= 1
                /\ \A d \in sent :
                      \E a \in 1..Len(q), b \in 1..Len(q) :
                          d.msg.payload.records = SubSeq(rays, a, b)
                /\ q # <<>> =>
                      \E p \in Range(worker[w].treeletToWorker[t]) :
                          \A d \in sent : d.dst = worker[w].peers[p].address
        /\ \A d \in NewDatagrams(w) :
              /\ d.msg.opcode = "SendRays"
              /\ \E t \in DOMAIN worker[w].outQueue :
                    Range(d.msg.payload.records)
                        \subseteq {to_protobuf(r) : r \in Range(worker[w].outQueue[t])}
        /\ \A t \in DOMAIN worker'[w].outQueue : worker'[w].outQueue[t] = <<>>
        /\ worker'[w].outQueueSize = 0
        /\ worker'[w].error = ""]_vars

\* an out queue was sent in more than one datagram and a datagram carries
\* more than one ray
OutQueueSentOnceWitness ==
    \E w \in Workers :
        /\ worker[w].outQueueSize = 0
        /\ RemoteTreelet \in DOMAIN worker[w].outQueue
        /\ worker[w].outQueue[RemoteTreelet] = <<>>
        /\ Cardinality({d \in worker[w].udpOut : d.msg.opcode = "SendRays"}) >= 2
        /\ \E d \in worker[w].udpOut :
              d.msg.opcode = "SendRays" /\ Len(d.msg.payload.records) >= 2

(***************************************************************************)
(* Needed treelets: the first worker gets, one by one, rays of the last    *)
(* worker that go on to a treelet it does not hold, while its handshake    *)
(* with the last worker is under way                                       *)
(***************************************************************************)
\* a ray for a treelet of worker v that goes on to a treelet of worker w
PassingRay(i, v, w) ==
    [OutRay(i, TreeletOf(v, w), CameraRayBytes) EXCEPT
        !.toVisit = <<TreeletNode(TreeletOf(w, v)), TreeletNode(TreeletOf(v, w))>>]

\* worker w, connected to worker v, after n runs of handleOutQueue that
\* each sent one ray to v
RECURSIVE SentOneByOne(_, _, _, _)
SentOneByOne(w, v, seed, n) ==
    IF n = 0 THEN Connected(w, v, seed)
    ELSE LET t == TreeletOf(v, w)
         IN  handleOutQueue(
                [SentOneByOne(w, v, seed, n - 1) EXCEPT
                    !.outQueue = MapPut(@, t, <<PassingRay(n, v, w)>>),
                    !.outQueueSize = 1],
                [x \in {t} |-> v])

\* worker w after the coordinator's ConnectTo for worker v and one tick of
\* the peer timer
Connecting(w, v, seed) ==
    handlePeers(handleMessages([Booted(w, seed) EXCEPT !.messageParser =
        <<Message("ConnectTo", [worker_id |-> v, address |-> Addr(v)])>>]))

InitNeeded ==
    /\ \E seed \in SeedValues, n \in 1..MaxNeeded :
          worker = [w \in Workers |->
                      IF w = FirstWorker
                      THEN Connecting(w, LastWorker, seed)
                      ELSE SentOneByOne(w, FirstWorker, seed, n)]
    /\ master = MasterServing
    /\ fuel = 0
    /\ received = [w \in Workers |-> {}]
    /\ tile = TileIdle
    /\ codec = CodecIdle

NextNeeded ==
    \/ \E w \in Workers, src \in Workers, op \in DatagramOpcodes :
          WorkerUdpRecv(w, src, op)
    \/ \E w \in Workers : HandleMessages(w)
    \/ \E w \in Workers : HandleRayQueue(w)
    \/ \E w \in Workers : HandleNeededTreelets(w)
    \/ \E w \in Workers : HandleOutQueue(w)

SpecNeeded == InitNeeded /\ [][NextNeeded]_vars

\* the GetWorker requests for treelet t that worker w has written
GetWorkersWritten(w, t) ==
    {i \in 1..Len(worker[w].tcpOut) :
        /\ worker[w].tcpOut[i].opcode = "GetWorker"
        /\ worker[w].tcpOut[i].payload.treelet_id = t}

\* a ConnectionResponse that lists t has moved a peer of w to Connected
HolderConnected(w, t) ==
    \E p \in DOMAIN worker[w].peers :
        worker[w].peers[p].state = "Connected" /\ t \in worker[w].peers[p].treelets

\* C33: as long as no ConnectionResponse listing t has moved a peer to
\* Connected, a worker has written at most one GetWorker for t, however
\* many rays for t it has pending
OneGetWorkerOutstanding ==
    \A w \in Workers, t \in SceneTreelets :
        ~HolderConnected(w, t) => Cardinality(GetWorkersWritten(w, t)) <= 1

\* a worker has written its GetWorker for t, no holder of t is connected,
\* and a ray that became pending for t later has been through
\* handleNeededTreelets
OneGetWorkerOutstandingWitness ==
    \E w \in Workers, t \in SceneTreelets :
        /\ ~HolderConnected(w, t)
        /\ Cardinality(GetWorkersWritten(w, t)) = 1
        /\ t \in DOMAIN worker[w].pendingQueue
        /\ Len(worker[w].pendingQueue[t]) >= 2
        /\ worker[w].neededTreelets = {}
        /\ worker[w].rayQueue = <<>>

(***************************************************************************)
(* The effect of a ConnectionResponse that connects a peer                 *)
(***************************************************************************)
\* the responses with a matching seed that a peer of the worker s can send
MatchingResponses(s) ==
    {[worker_id |-> p, my_seed |-> s.peers[p].seed, your_seed |-> s.mySeed,
      treelet_ids |-> SetToSeq(T)] :
        p \in DOMAIN s.peers, T \in SUBSET SceneTreelets}

\* C34: a ConnectionResponse with a matching seed from a peer that is not
\* Connected connects the peer and, for every treelet it lists, appends the
\* peer to treeletToWorker, takes the treelet out of requestedTreelets and
\* moves the pending rays in order to the tail of the out queue; the queues
\* of the other treelets stay as they are; from a peer that is Connected
\* it adds nothing to treeletToWorker
ResponseConnectsAndDrains ==
    \A w \in Workers : \A proto \in MatchingResponses(worker[w]) :
        LET s == worker[w]
            p == proto.worker_id
            r == ConnectionResponseHandler(s, proto)
            listed == Range(proto.treelet_ids)
            holders(x, t) == MapGet(x.treeletToWorker, t, <<>>)
            out(x, t) == MapGet(x.outQueue, t, <<>>)
            pending(x, t) == MapGet(x.pendingQueue, t, <<>>)
        IN  IF s.peers[p].state = "Connected"
            THEN /\ r.treeletToWorker = s.treeletToWorker
                 /\ r.outQueue = s.outQueue
                 /\ r.pendingQueue = s.pendingQueue
            ELSE /\ r.peers[p].state = "Connected"
                 /\ r.rayQueue = s.rayQueue
                 /\ r.finishedQueue = s.finishedQueue
                 /\ \A t \in listed :
                      /\ holders(r, t) = Append(holders(s, t), p)
                      /\ t \notin r.requestedTreelets
                      /\ out(r, t) = out(s, t) \o pending(s, t)
                      /\ pending(r, t) = <<>>
                 /\ \A t \in SceneTreelets \ listed :
                      /\ holders(r, t) = holders(s, t)
                      /\ t \in r.requestedTreelets <=> t \in s.requestedTreelets
                      /\ out(r, t) = out(s, t)
                      /\ pending(r, t) = pending(s, t)

\* a worker that had asked for a treelet has connected a holder of it: the
\* request is no longer outstanding and the rays that were pending wait, in
\* the order of their arrival, in the out queue
ResponseConnectsAndDrainsWitness ==
    \E w \in Workers, t \in SceneTreelets :
        /\ HolderConnected(w, t)
        /\ GetWorkersWritten(w, t) # {}
        /\ t \notin worker[w].requestedTreelets
        /\ t \in DOMAIN worker[w].pendingQueue
        /\ worker[w].pendingQueue[t] = <<>>
        /\ t \in DOMAIN worker[w].outQueue
        /\ Len(worker[w].outQueue[t]) >= 2
        /\ worker[w].pendingQueueSize = 0

(***************************************************************************)
(* The stats tick: what is reported, and what the reports add up to        *)
(***************************************************************************)
\* a counter of a WorkerStats by its name
Counter(stats, name) ==
    IF name = "finishedPaths" THEN stats.finishedPaths
    ELSE stats.aggregateStats[name]

IsWorkerStats(message) == message.opcode = "WorkerStats"

\* the sum of a counter over the WorkerStats messages of a queue
ReportedIn(messages, name) ==
    LET reports == SelectSeq(messages, IsWorkerStats)
    IN  SumSeq([i \in 1..Len(reports) |->
                  Counter(WorkerStats_from_protobuf(reports[i].payload), name)])

\* a counter summed over every place its counts can be: the workers, the
\* reports on their way, and the coordinator's merged stats
Counted(name) ==
    LET ws == SetToSeq(Workers)
    IN  SumSeq([i \in 1..Len(ws) |->
                  Counter(worker[ws[i]].workerStats, name)
                  + ReportedIn(worker[ws[i]].tcpOut, name)])
        + ReportedIn([i \in 1..Len(master.incomingMessages) |->
                        master.incomingMessages[i].message], name)
        + Counter(master.workerStats, name)

\* the rays in a queue map
Depth(m) ==
    LET ts == SetToSeq(DOMAIN m)
    IN  SumSeq([i \in 1..Len(ts) |-> Len(m[ts[i]])])

\* what the counted events left behind: a ray counted as waiting and not
\* as processed is in a ray queue, a ray counted as sending and not as sent
\* is in an out queue, a ray counted as received was taken from a SendRays
\* message, and a path counted as finished left its escaped ray in a
\* finished queue (no ray runs out of bounces in these runs)
EventsMatchCounters ==
    LET ws == SetToSeq(Workers)
        sum(f(_)) == SumSeq([i \in 1..Len(ws) |-> f(ws[i])])
        inRayQueue(w) == Len(worker[w].rayQueue)
        inOutQueue(w) == Depth(worker[w].outQueue)
        got(w) == Cardinality(received[w])
        escaped(w) == Cardinality({i \in 1..Len(worker[w].finishedQueue) :
                                      ~worker[w].finishedQueue[i].isShadowRay})
    IN  /\ Counted("waitingRays") - Counted("processedRays") = sum(inRayQueue)
        /\ Counted("sendingRays") - Counted("sentRays") = sum(inOutQueue)
        /\ Counted("receivedRays") = sum(got)
        /\ Counted("finishedPaths") = sum(escaped)

\* the stats tick of worker w wrote one WorkerStats message with the
\* worker's counters and its queue depths, and zeroed the counters
TickReportsAndResets(w) ==
    LET s == worker[w]
        out == worker'[w].tcpOut
        stats == WorkerStats_from_protobuf(out[Len(out)].payload)
    IN  /\ Len(out) = Len(s.tcpOut) + 1
        /\ SubSeq(out, 1, Len(s.tcpOut)) = s.tcpOut
        /\ out[Len(out)].opcode = "WorkerStats"
        /\ stats.finishedPaths = s.workerStats.finishedPaths
        /\ stats.aggregateStats = s.workerStats.aggregateStats
        /\ stats.objectStats = s.workerStats.objectStats
        /\ stats.queueStats.ray = Len(s.rayQueue)
        /\ stats.queueStats.finished = Len(s.finishedQueue)
        /\ stats.queueStats.pending = Depth(s.pendingQueue)
        /\ stats.queueStats.out = Depth(s.outQueue)
        /\ worker'[w].workerStats.finishedPaths = 0
        /\ worker'[w].workerStats.aggregateStats = RayStatsZero
        /\ \A t \in SceneTreelets :
              MapGet(worker'[w].workerStats.objectStats, t, RayStatsZero)
                  = RayStatsZero

\* C35: each stats tick writes exactly one WorkerStats message with the
\* counters since the tick before and the current queue depths and zeroes
\* the counters, so that every counted event is in exactly one place (a
\* worker's counters, one report on its way, or the coordinator's merged
\* totals) and the totals add up to the events that happened
EventsReportedOnce ==
    /\ [][\A w \in Workers : HandleWorkerStats(w) => TickReportsAndResets(w)]_vars
    /\ []EventsMatchCounters

\* the coordinator has merged a report of a worker that has counted again
\* and written its next report, with rays received, sent and finished
EventsReportedOnceWitness ==
    \E w \in Workers :
        /\ w \in DOMAIN master.workers
        /\ master.workers[w].stats.aggregateStats.waitingRays >= 1
        /\ ReportedIn(worker[w].tcpOut, "processedRays") >= 1
        /\ Counted("receivedRays") >= 1
        /\ Counted("finishedPaths") >= 1

(***************************************************************************)
(* Shading scenarios: one worker traces and shades the camera rays of its  *)
(* tile; the kernel is free to return a continuation ray and a shadow ray  *)
(* at every intersection, and the budget limits only the frames Trace adds *)
(***************************************************************************)
TraceCost(o) == Len(o.pushed)

\* the kernel results for a queue of rays whose traces add at most f frames
RECURSIVE ShadingSeqs(_, _)
ShadingSeqs(q, f) ==
    IF q = <<>> THEN {<<>>}
    ELSE UNION {{<<o>> \o rest : rest \in ShadingSeqs(Tail(q), f - TraceCost(o))} :
                  o \in {x \in Oracles(Head(q)) : TraceCost(x) <= f}}

RECURSIVE TraceCostAll(_)
TraceCostAll(os) ==
    IF os = <<>> THEN 0 ELSE TraceCost(Head(os)) + TraceCostAll(Tail(os))

\* worker w after the GenerateRays message for its tile
Generated(w, seed) ==
    handleMessages([Booted(w, seed) EXCEPT !.messageParser =
        <<Message("GenerateRays",
                  [crop_window |-> MasterAccepted.workers[w].tile[1]])>>])

InitShade ==
    /\ \E seed \in SeedValues :
          worker = [w \in Workers |->
                      IF w = FirstWorker THEN Generated(w, seed)
                      ELSE Booted(w, seed)]
    /\ master = MasterServing
    /\ fuel = 0
    /\ received = [w \in Workers |-> {}]
    /\ tile = TileIdle
    /\ codec = CodecIdle

\* handleRayQueue of worker w with a kernel that is free in shading
ShadeRayQueue(w) ==
    /\ Running(w)
    /\ worker[w].rayQueue # <<>>
    /\ LET q == SubSeq(worker[w].rayQueue, 1,
                       Min(MAX_RAYS, Len(worker[w].rayQueue)))
       IN  \E os \in ShadingSeqs(q, fuel) :
            /\ worker' = [worker EXCEPT ![w] = handleRayQueue(@, os)]
            /\ fuel' = fuel - TraceCostAll(os)
    /\ UNCHANGED <<master, received, tile, codec>>

NextShade == ShadeRayQueue(FirstWorker)

SpecShade == InitShade /\ [][NextShade]_vars /\ WF_vars(NextShade)

\* what the light and BSDF sampling of Shade can come to
ShadeResults ==
    {[pushed |-> <<>>, hit |-> FALSE, cont |-> c, shadow |-> sh] :
        c \in BOOLEAN, sh \in BOOLEAN}

\* the rays of worker w that wait or are finished, in queue order
RaysOf(w) == worker[w].rayQueue \o worker[w].finishedQueue

\* Shade gives at most one continuation ray and at most one shadow ray, a
\* continuation ray only for a ray with bounces left, with one bounce left
\* less and one bounce more; no ray has more than maxDepth bounces, and no
\* two rays of a sample have the same number of bounces and the same kind
BouncesAreCounted ==
    \A w \in Workers :
        /\ \A r \in Range(worker[w].rayQueue), o \in ShadeResults :
              (r.toVisit = <<>> /\ initialized(r.hit)) =>
                  LET rays == Shade(r, o)
                      continuation == {i \in 1..Len(rays) : ~rays[i].isShadowRay}
                      shadow == {i \in 1..Len(rays) : rays[i].isShadowRay}
                  IN  /\ Cardinality(continuation) <= 1
                      /\ Cardinality(shadow) <= 1
                      /\ \A i \in continuation :
                            /\ r.remainingBounces > 0
                            /\ rays[i].remainingBounces = r.remainingBounces - 1
                            /\ rays[i].bounces = r.bounces + 1
        /\ \A i \in 1..Len(RaysOf(w)) :
              /\ RaysOf(w)[i].remainingBounces >= 0
              /\ RaysOf(w)[i].bounces + RaysOf(w)[i].remainingBounces = maxDepth
              /\ \A j \in 1..Len(RaysOf(w)) :
                    RayKey(RaysOf(w)[i]) = RayKey(RaysOf(w)[j]) => i = j

\* C36: Shade returns at most one continuation ray and one shadow ray, the
\* continuation ray with one bounce left less than its parent and never for
\* a parent with none left, so a camera ray has at most maxDepth
\* continuation rays and the ray queue of a worker that traces and shades
\* the camera rays of its tile eventually runs empty
ShadingTerminates ==
    /\ []BouncesAreCounted
    /\ <>(worker[FirstWorker].rayQueue = <<>>)

\* a path went through all its bounces: shading its last ray cast a shadow
\* ray and no continuation ray, and nothing is left to process
ShadingTerminatesWitness ==
    /\ worker[FirstWorker].rayQueue = <<>>
    /\ worker[FirstWorker].workerStats.finishedPaths > 0
    /\ \E r \in Range(worker[FirstWorker].finishedQueue) :
          r.isShadowRay /\ r.bounces = maxDepth /\ r.remainingBounces = 0

(***************************************************************************)
(* The size counters of the out queues and the pending queues              *)
(***************************************************************************)
\* C37: between handlers outQueueSize is the number of rays in the out
\* queues and pendingQueueSize the number of rays in the pending queues of
\* a worker, so the guard of the out-queue action, outQueueSize > 0, holds
\* exactly when a ray waits to be sent, and no counter goes below zero
SizesMatchQueues ==
    \A w \in Workers :
        /\ worker[w].outQueueSize = Depth(worker[w].outQueue)
        /\ worker[w].pendingQueueSize = Depth(worker[w].pendingQueue)
        /\ worker[w].outQueueSize >= 0
        /\ worker[w].pendingQueueSize >= 0
        /\ worker[w].outQueueSize > 0
              <=> \E t \in DOMAIN worker[w].outQueue : worker[w].outQueue[t] # <<>>

\* a worker has moved pending rays to an out queue and not sent them yet,
\* a worker has sent the rays of an out queue, and a worker has rays pending
SizesMatchQueuesWitness ==
    /\ \E w \in Workers : \E t \in DOMAIN worker[w].pendingQueue :
          /\ worker[w].pendingQueue[t] = <<>>
          /\ t \in DOMAIN worker[w].outQueue
          /\ worker[w].outQueue[t] # <<>>
    /\ \E w \in Workers :
          \/ worker[w].pendingQueueSize > 0
          \/ \E t \in DOMAIN worker[w].outQueue :
                worker[w].outQueue[t] = <<>> /\ worker[w].outQueueSize = 0

(***************************************************************************)
(* Finished paths                                                          *)
(***************************************************************************)
\* the samples whose camera rays the first worker generates for its tile
StartedSamples ==
    {r.sample.id : r \in Range(Generated(FirstWorker, AnySeed).rayQueue)}

\* the path of the sample goes on: a ray of it that is no shadow ray waits
\* in a queue or travels in a datagram
PathGoesOn(id) ==
    \E h \in AllHoldings :
        h.place # "finishedQueue" /\ h.key[1] = id /\ ~h.key[3]

\* C38: every path that has ended, by its ray leaving the scene, by being
\* shaded with no bounces left or by a shading that gives no continuation
\* ray, has been counted in finishedPaths exactly once: the finishedPaths
\* of the workers, of the reports on their way and of the coordinator add
\* up to the number of ended paths
EndedPathsAreCounted ==
    Counted("finishedPaths")
        = Cardinality({id \in StartedSamples : ~PathGoesOn(id)})

(***************************************************************************)
(* Load scenarios: the workers trace the camera rays of their tiles, their *)
(* stats timers tick at any moment, and the coordinator reads and merges   *)
(* the reports at any moment                                               *)
(***************************************************************************)
InitLoad ==
    /\ \E seed \in SeedValues :
          worker = [w \in Workers |-> Generated(w, seed)]
    /\ master = MasterServing
    /\ fuel = 0
    /\ received = [w \in Workers |-> {}]
    /\ tile = TileIdle
    /\ codec = CodecIdle

\* the coordinator's data callback for the connection of worker w
TcpDataArrives(w) ==
    /\ master.error = ""
    /\ w \in DOMAIN master.workers
    /\ worker[w].tcpOut # <<>>
    /\ Len(master.incomingMessages) < MaxUnread
    /\ master' = [master EXCEPT !.incomingMessages =
                    @ \o [i \in 1..Len(worker[w].tcpOut) |->
                            [id |-> w, message |-> worker[w].tcpOut[i]]]]
    /\ worker' = [worker EXCEPT ![w].tcpOut = <<>>]
    /\ UNCHANGED <<fuel, received, tile, codec>>

NextLoad ==
    \/ \E w \in Workers : HandleRayQueue(w)
    \/ \E w \in Workers : StatsTimerFires(w)
    \/ \E w \in Workers : TcpDataArrives(w)
    \/ MasterHandleMessages

SpecLoad == InitLoad /\ [][NextLoad]_vars

\* the load of a treelet as the coordinator computes it from merged stats,
\* before the conversion to an unsigned 64-bit value
treeletLoad(rayStats) == rayStats.waitingRays - rayStats.processedRays

\* the coordinator after the first k of the messages it has to handle
AfterMessages(k) ==
    masterProcessMessages([master EXCEPT !.incomingMessages = <<>>],
                          SubSeq(master.incomingMessages, 1, k))

\* C39: after every WorkerStats message the coordinator handles, the load
\* waitingRays - processedRays of every treelet in its merged stats is not
\* negative, so the unsigned value does not wrap around
LoadNeverWraps ==
    \A k \in 0..Len(master.incomingMessages) :
        \A t \in DOMAIN AfterMessages(k).workerStats.objectStats :
            treeletLoad(AfterMessages(k).workerStats.objectStats[t]) >= 0

\* the coordinator has merged a report that counts a ray as waiting and is
\* about to merge the report that counts it as processed, which on its own
\* has more processed rays than waiting rays
LoadNeverWrapsWitness ==
    \E t \in DOMAIN master.workerStats.objectStats :
        /\ master.workerStats.objectStats[t].waitingRays >= 1
        /\ \E i \in 1..Len(master.incomingMessages) :
              /\ master.incomingMessages[i].message.opcode = "WorkerStats"
              /\ LET stats == WorkerStats_from_protobuf(
                                 master.incomingMessages[i].message.payload)
                 IN  /\ t \in DOMAIN stats.objectStats
                     /\ treeletLoad(stats.objectStats[t]) < 0

(***************************************************************************)
(* The coordinator's assignment indexes                                    *)
(***************************************************************************)
\* the sizes of the objects in the set objects, added up
RECURSIVE TotalSize(_)
TotalSize(objects) ==
    IF objects = {} THEN 0
    ELSE LET o == CHOOSE x \in objects : TRUE
         IN  master.sceneObjects[o].size + TotalSize(objects \ {o})

\* the treelets worker w holds
TreeletsHeld(w) ==
    {o.id : o \in {x \in master.workers[w].objects : x.type = "Treelet"}}

\* sceneObjects[o].workers and workers[w].objects say the same, assigning
\* an object again changes nothing and each object was debited once, and a
\* held treelet comes with its dependency closure
IndexesAgree ==
    /\ \A o \in DOMAIN master.sceneObjects :
          /\ master.sceneObjects[o].workers \subseteq DOMAIN master.workers
          /\ \A w \in DOMAIN master.workers :
                w \in master.sceneObjects[o].workers
                    <=> o \in master.workers[w].objects
    /\ \A w \in DOMAIN master.workers :
          /\ master.workers[w].objects \subseteq DOMAIN master.sceneObjects
          /\ \A o \in master.workers[w].objects :
                assignObject(master, w, o) = master
          /\ master.workers[w].freeSpace
                = MasterWorker(w).freeSpace - TotalSize(master.workers[w].objects)
          /\ \A t \in TreeletsHeld(w) :
                /\ treeletFlattenDependencies(t) \subseteq master.workers[w].objects
                /\ assignTreelet(master, w, t) = master

\* a step leaves the objects of every worker accepted before it alone
ObjectsStay ==
    \A w \in DOMAIN master.workers :
        /\ w \in DOMAIN master'.workers
        /\ master'.workers[w].objects = master.workers[w].objects

\* C40: the coordinator's two assignment indexes always agree, assigning an
\* object a worker already has changes nothing and freeSpace is debited once
\* per object, a worker that holds a treelet holds the treelet's flattened
\* dependency closure, and a worker's objects never change after its
\* connection was accepted
AssignmentIsConsistent == [][ObjectsStay]_vars /\ []IndexesAgree

\* two workers were accepted and share an object, one of them holds a
\* treelet with dependencies, and the coordinator has served them since
\* (it has learned an address and has a request in hand)
AssignmentIsConsistentWitness ==
    /\ \E o \in DOMAIN master.sceneObjects :
          Cardinality(master.sceneObjects[o].workers) >= 2
    /\ \E w \in DOMAIN master.workers :
          /\ initialized(master.workers[w].udpAddress)
          /\ \E t \in TreeletsHeld(w) : treeletFlattenDependencies(t) # {}
    /\ master.pendingWorkerRequests # <<>>
=============================================================================
